---- MODULE Spec2Model ----
(***************************************************************************)
(* Model of the Spotify integration service for Omi (src/main.py,          *)
(* src/models.py).  Every HTTP handler is one atomic action: the handlers  *)
(* are `async def` functions whose outbound calls use the blocking         *)
(* `requests` library, and the service runs as one uvicorn process         *)
(* (main.py:1006), so no two handlers interleave.                          *)
(*                                                                         *)
(* Python values are represented as follows.  A dict is a TLA+ record (a   *)
(* function on strings), so `"error" in d` is "error" \in DOMAIN d and {}  *)
(* is <<>>.  None is NoneDict where a dict is expected and the string      *)
(* None where a str is expected.  A helper that may raise returns          *)
(* [exc |-> <exception name or "">, val |-> <value>, st |-> <store, log>]. *)
(***************************************************************************)
EXTENDS Integers, Sequences, FiniteSets, TLC

VARIABLES
    spotify_tokens,     \* db: credential records, a dict keyed by uid
    default_playlists,  \* db: default-playlist records, a dict keyed by uid
    now,                \* datetime.utcnow().timestamp(), in seconds
    request,            \* the request the last handler received
    response,           \* what the last handler returned
    outbound,           \* the outbound HTTP calls the last handler made
    linked,             \* history: uids whose last successful OAuth callback
                        \* was not followed by a disconnect
    in_flight,          \* the handler tasks on the event loop: where each
                        \* is and what it has read
    authorizing,        \* history: uids GET /auth/spotify has sent to the
                        \* provider, where that history is kept
    unlinked            \* history: uids whose credential record a
                        \* disconnect removed since they last chose a
                        \* default playlist, where that history is kept

vars == <<spotify_tokens, default_playlists, now, request, response, outbound,
          linked, in_flight, authorizing, unlinked>>

-----------------------------------------------------------------------------
(* Bounds of the model *)

\* The clock runs from 0 to MaxTime.
MaxTime == 1

\* The requests the service has in flight at the same time.
MaxInFlight == 2

\* Default token lifetime when the provider omits expires_in.
DefaultExpiresIn == 3600

-----------------------------------------------------------------------------
(* Values *)

None == "None"
NoneDict == [None |-> TRUE]

Uids == {"u1", "u2"}

\* Python truthiness of an Optional[str].
Truthy(s) == s # None /\ s # ""

\* dict.get(key, default)
Get(d, key, default) == IF key \in DOMAIN d THEN d[key] ELSE default

\* The element of a one-element set.  Only({e(x) : x \in {v}}) is e(v) with
\* v computed once: `x = v` followed by the statements that read x.
Only(S) == CHOOSE x \in S : TRUE

-----------------------------------------------------------------------------
(* Credential & settings store (db.py) *)

get_spotify_tokens_in(tokens, uid) ==
    IF uid \in DOMAIN tokens THEN tokens[uid] ELSE NoneDict

get_spotify_tokens(uid) == get_spotify_tokens_in(spotify_tokens, uid)

store_spotify_tokens(tokens, uid, access_token, refresh_token, expires_at) ==
    [u \in (DOMAIN tokens) \cup {uid} |->
        IF u = uid
        THEN [access_token |-> access_token,
              refresh_token |-> refresh_token,
              expires_at |-> expires_at]
        ELSE tokens[u]]

delete_spotify_tokens(tokens, uid) ==
    [u \in (DOMAIN tokens) \ {uid} |-> tokens[u]]

is_token_expired_in(tokens, uid) ==
    \/ uid \notin DOMAIN tokens
    \/ now >= tokens[uid].expires_at

store_default_playlist(defaults, uid, playlist_id, playlist_name) ==
    [u \in (DOMAIN defaults) \cup {uid} |->
        IF u = uid THEN [id |-> playlist_id, name |-> playlist_name]
        ELSE defaults[u]]

get_default_playlist(uid) ==
    IF uid \in DOMAIN default_playlists THEN default_playlists[uid] ELSE NoneDict

-----------------------------------------------------------------------------
(* HTTP responses of the provider *)

\* A response body: empty, text that is not JSON, or a JSON value.  Parsing
\* text raises JSONDecodeError, which is a RequestException in requests >= 2.27
\* and only a ValueError before: json_error is the class the installed
\* library raises.
EmptyBody == [kind |-> "empty"]
TextBody(json_error) == [kind |-> "text", json_error |-> json_error]
TextBodies == {TextBody("RequestException"), TextBody("JSONDecodeError")}
Json(value) == [kind |-> "json", value |-> value]

\* A JSON string where the code expects an object.
JsonString(str) == [str |-> str]
IsJsonString(value) == DOMAIN value = {"str"}

\* requests raises a RequestException (connection error, timeout).
TransportFailure == [transport_failure |-> TRUE]
HttpResponse(status_code, body) == [status_code |-> status_code, body |-> body]
IsTransportFailure(resp) == "transport_failure" \in DOMAIN resp

\* Token-endpoint responses to the authorization-code exchange.
ExchangeResponses ==
    { HttpResponse(200, Json([access_token |-> "at1", refresh_token |-> "rt1",
                              expires_in |-> 1])),
      HttpResponse(200, Json([access_token |-> "at1", refresh_token |-> "rt1"])),
      HttpResponse(400, Json([error |-> JsonString("invalid_grant")])),
      TransportFailure }

\* Token-endpoint responses to a refresh: the provider may omit the
\* refresh token and the lifetime.
RefreshResponses ==
    { HttpResponse(200, Json([access_token |-> "at2", refresh_token |-> "rt2",
                              expires_in |-> 1])),
      HttpResponse(200, Json([access_token |-> "at2"])),
      HttpResponse(400, Json([error |-> JsonString("invalid_grant")])),
      TransportFailure }

ErrorObject(status, message) ==
    HttpResponse(status, Json([error |-> [status |-> status,
                                          message |-> message]]))

\* Failures any endpoint of the API may answer with.
CommonFailures ==
    { ErrorObject(401, "The access token expired"),
      HttpResponse(403, Json([error |-> [status |-> 403]])),
      HttpResponse(400, Json([error |-> JsonString("invalid_request")])),
      HttpResponse(500, EmptyBody),
      TransportFailure }
        \cup {HttpResponse(502, b) : b \in TextBodies}

NoActiveDeviceMessage == "Player command failed: No active device found"

\* Answers of the player endpoints.
PlayerResponses ==
    { HttpResponse(204, EmptyBody),
      HttpResponse(200, EmptyBody),
      ErrorObject(404, NoActiveDeviceMessage) }
        \cup CommonFailures

\* Items of GET /search.
Track1 ==
    [id |-> "t1", name |-> "Song", artists |-> <<[name |-> "Artist"]>>,
     album |-> [name |-> "Album"], duration_ms |-> 125000,
     uri |-> "spotify:track:t1"]

SearchResponses ==
    { HttpResponse(200, Json([tracks |-> [items |-> <<Track1>>]])),
      HttpResponse(200, Json([tracks |-> [items |-> <<>>]])),
      HttpResponse(200, Json([tracks |-> [items |-> <<[id |-> "t1"]>>]])) }
        \cup CommonFailures

\* Items of GET /me/playlists.
PlaylistItem(id, name) ==
    [id |-> id, name |-> name, description |-> "",
     owner |-> [display_name |-> "me"], tracks |-> [total |-> 3],
     public |-> FALSE, uri |-> "spotify:playlist:" \o id]

PlaylistListings ==
    { <<>>,
      <<PlaylistItem("p3", "Road Trip"), PlaylistItem("p4", "Trip Hop")>>,
      <<PlaylistItem("p5", "Trip Hop Mix"), PlaylistItem("p4", "Trip Hop")>> }

PlaylistsResponses ==
    {HttpResponse(200, Json([items |-> l])) : l \in PlaylistListings}
        \cup CommonFailures

\* Answers of POST /playlists/{id}/tracks.
AddTracksResponses ==
    {HttpResponse(201, Json([snapshot_id |-> "s1"]))} \cup CommonFailures

\* Answers of GET /me.
ProfileResponses ==
    { HttpResponse(200, Json([id |-> "sp1", display_name |-> "me"])),
      HttpResponse(200, Json([display_name |-> "me"])) }
        \cup CommonFailures

\* Answers of POST /users/{id}/playlists.
CreatePlaylistResponses ==
    { HttpResponse(201, Json([id |-> "p9", external_urls |->
                                [spotify |-> "https://open.spotify.com/p9"]])),
      HttpResponse(201, Json([id |-> "p9"])) }
        \cup CommonFailures

\* Answers of GET /me/player/currently-playing.
NowPlayingResponses ==
    { HttpResponse(204, EmptyBody),
      HttpResponse(200, Json([is_playing |-> TRUE, progress_ms |-> 59000,
                              item |-> Track1])),
      HttpResponse(200, Json([item |-> Track1])),
      HttpResponse(200, Json([is_playing |-> FALSE])),
      HttpResponse(200, Json([is_playing |-> TRUE, item |-> [id |-> "t1"]])) }
        \cup CommonFailures

\* Answers of GET /me/player/recently-played.
RecentlyPlayedResponses ==
    { HttpResponse(200, Json([items |-> <<[track |-> [id |-> "t1"]]>>])),
      HttpResponse(200, Json([items |-> <<>>])) }
        \cup CommonFailures

\* Answers of GET /recommendations.
RecommendationsResponses ==
    { HttpResponse(200, Json([tracks |-> <<Track1>>])),
      HttpResponse(200, Json([tracks |-> <<>>])),
      HttpResponse(200, Json([tracks |-> <<[id |-> "t1"]>>])) }
        \cup CommonFailures

\* The answers the provider may give to an API call.
ResponsesFor(call) ==
    CASE call.endpoint = "/search" -> SearchResponses
      [] call.endpoint = "/me/playlists" -> PlaylistsResponses
      [] call.endpoint = "/me" -> ProfileResponses
      [] call.endpoint = "/me/player/currently-playing" -> NowPlayingResponses
      [] call.endpoint = "/me/player/recently-played"
           -> RecentlyPlayedResponses
      [] call.endpoint = "/recommendations" -> RecommendationsResponses
      [] call.endpoint \in {"/me/player/play", "/me/player/pause",
                            "/me/player/next", "/me/player/previous"}
           -> PlayerResponses
      [] call.endpoint = "/users/sp1/playlists" -> CreatePlaylistResponses
      [] OTHER -> AddTracksResponses

-----------------------------------------------------------------------------
(* Results of helpers that may raise, with the store and the log threaded *)

\* The part of the state a helper may change: the credential records and
\* the log of outbound calls.
Store(tokens, out) == [tokens |-> tokens, out |-> out]

Return(st, val) == [exc |-> "", val |-> val, st |-> st]
Raise(st, exc) == [exc |-> exc, val |-> NoneDict, st |-> st]
Raised(r) == r.exc # ""

-----------------------------------------------------------------------------
(* Music-provider API client *)

\* The log entry of a call to the token endpoint: what was sent and what the
\* provider answered.
TokenCall(grant_type, credential, resp) ==
    [to |-> "token", grant_type |-> grant_type, credential |-> credential,
     resp |-> resp]

\* refresh_access_token: one POST to the token endpoint; the parsed body on
\* 200, else None.  A transport failure propagates to the caller.
refresh_access_token(st, refresh_token, resp) ==
    LET st1 == Store(st.tokens,
                     Append(st.out,
                            TokenCall("refresh_token", refresh_token, resp)))
    IN IF IsTransportFailure(resp) THEN Raise(st1, "ConnectionError")
       ELSE IF resp.status_code = 200 THEN Return(st1, resp.body.value)
       ELSE Return(st1, NoneDict)

\* get_valid_access_token: the stored access token, refreshed when expired.
\* val is [token, expired, refreshed]: the token returned (or None), what
\* is_token_expired reported, and whether the token comes from a refresh.
AccessToken(token, expired, refreshed) ==
    [token |-> token, expired |-> expired, refreshed |-> refreshed]

\* get_valid_access_token, deleting the record when the refresh fails.
get_valid_access_token_forgets(st, uid, refresh_resp) ==
    LET tokens == get_spotify_tokens_in(st.tokens, uid)
    IN IF tokens = NoneDict
       THEN Return(st, AccessToken(None, TRUE, FALSE))
       ELSE IF is_token_expired_in(st.tokens, uid)
       THEN Only({
              LET new_tokens == r.val
                expires_at ==
                    now + Get(new_tokens, "expires_in", DefaultExpiresIn)
            IN IF Raised(r) THEN r
               ELSE IF new_tokens # NoneDict /\ new_tokens # <<>>
               THEN Return(
                      Store(store_spotify_tokens(
                              r.st.tokens, uid, new_tokens.access_token,
                              Get(new_tokens, "refresh_token",
                                  tokens.refresh_token),
                              expires_at),
                            r.st.out),
                      AccessToken(new_tokens.access_token, TRUE, TRUE))
               ELSE Return(Store(delete_spotify_tokens(r.st.tokens, uid),
                                 r.st.out),
                           AccessToken(None, TRUE, FALSE))
              : r \in {refresh_access_token(st, tokens.refresh_token, refresh_resp)}})
       ELSE Return(st, AccessToken(tokens.access_token, FALSE, FALSE))

\* get_valid_access_token, without the expiry check.
get_valid_access_token_stale(st, uid, refresh_resp) ==
    LET tokens == get_spotify_tokens_in(st.tokens, uid)
    IN IF tokens = NoneDict
       THEN Return(st, AccessToken(None, TRUE, FALSE))
       ELSE Return(st, AccessToken(tokens.access_token,
                                   is_token_expired_in(st.tokens, uid), FALSE))

get_valid_access_token(st, uid, refresh_resp) ==
    LET tokens == get_spotify_tokens_in(st.tokens, uid)
    IN IF tokens = NoneDict
       THEN Return(st, AccessToken(None, TRUE, FALSE))
       ELSE IF is_token_expired_in(st.tokens, uid)
       THEN Only({
              LET new_tokens == r.val
                expires_at ==
                    now + Get(new_tokens, "expires_in", DefaultExpiresIn)
            IN IF Raised(r) THEN r
               ELSE IF new_tokens # NoneDict /\ new_tokens # <<>>
               THEN Return(
                      Store(store_spotify_tokens(
                              r.st.tokens, uid, new_tokens.access_token,
                              Get(new_tokens, "refresh_token",
                                  tokens.refresh_token),
                              expires_at),
                            r.st.out),
                      AccessToken(new_tokens.access_token, TRUE, TRUE))
               ELSE Return(r.st, AccessToken(None, TRUE, FALSE))
              : r \in {refresh_access_token(st, tokens.refresh_token, refresh_resp)}})
       ELSE Return(st, AccessToken(tokens.access_token, FALSE, FALSE))

\* The log entry of a call to the provider's REST API: what was sent and what
\* the provider answered.  stored is the access token the store held when the
\* call's token was resolved.
ApiCall(uid, method, endpoint, payload, tok, stored, resp) ==
    [to |-> "api", uid |-> uid, method |-> method, endpoint |-> endpoint,
     payload |-> payload, bearer |-> tok.token, expired |-> tok.expired,
     refreshed |-> tok.refreshed, stored |-> stored, resp |-> resp]

\* response.json(): a body that is not JSON raises.
ResponseJson(st, resp) ==
    IF resp.body.kind = "json" THEN Return(st, resp.body.value)
    ELSE Raise(st, resp.body.json_error)

\* error_data.get("error", {}).get("message", f"API error: {status}")
ErrorMessage(st, error_data, status_code) ==
    LET err == Get(error_data, "error", <<>>)
        fallback == "API error: " \o ToString(status_code)
    IN IF IsJsonString(err)
       THEN Raise(st, "AttributeError")
       ELSE Return(st, [error |-> Get(err, "message", fallback)])

\* The except clause of spotify_api_request: a RequestException becomes an
\* {error} dict, any other exception propagates.
CatchRequestException(r) ==
    IF r.exc = "RequestException"
    THEN Return(r.st, [error |-> "Request failed: " \o r.exc])
    ELSE r

\* spotify_api_request, sending the call a second time after a transport
\* failure.
spotify_api_request_retries(st, uid, method, endpoint, payload, refresh_resp, resp) ==
    Only({
      LET stored == get_spotify_tokens_in(st.tokens, uid)
        st1 == Store(t.st.tokens,
                     Append(t.st.out,
                            ApiCall(uid, method, endpoint, payload, t.val,
                                    stored.access_token, resp)))
    IN IF Raised(t) THEN t
       ELSE IF ~Truthy(t.val.token)
       THEN Return(t.st, [error |-> "User not authenticated with Spotify"])
       ELSE IF method \notin {"GET", "POST", "PUT", "DELETE"}
       THEN Return(t.st, [error |-> "Unsupported HTTP method: " \o method])
       ELSE IF IsTransportFailure(resp)
       THEN Return(Store(st1.tokens,
                         Append(st1.out,
                                ApiCall(uid, method, endpoint, payload, t.val,
                                        stored.access_token, resp))),
                   [error |-> "Request failed: ConnectionError"])
       ELSE IF resp.status_code = 204
       THEN Return(st1, [success |-> TRUE])
       ELSE IF resp.status_code >= 400
       THEN IF resp.body.kind = "empty"
            THEN ErrorMessage(st1, <<>>, resp.status_code)
            ELSE IF resp.body.kind = "json"
            THEN ErrorMessage(st1, resp.body.value, resp.status_code)
            ELSE CatchRequestException(ResponseJson(st1, resp))
       ELSE IF resp.body.kind # "empty"
       THEN CatchRequestException(ResponseJson(st1, resp))
       ELSE Return(st1, [success |-> TRUE])
      : t \in {get_valid_access_token(st, uid, refresh_resp)}})

\* spotify_api_request: resp is what the provider does with the API call
\* and refresh_resp what it does with a refresh, should one be sent.
spotify_api_request(st, uid, method, endpoint, payload, refresh_resp, resp) ==
    Only({
      LET stored == get_spotify_tokens_in(st.tokens, uid)
        st1 == Store(t.st.tokens,
                     Append(t.st.out,
                            ApiCall(uid, method, endpoint, payload, t.val,
                                    stored.access_token, resp)))
    IN IF Raised(t) THEN t
       ELSE IF ~Truthy(t.val.token)
       THEN Return(t.st, [error |-> "User not authenticated with Spotify"])
       ELSE IF method \notin {"GET", "POST", "PUT", "DELETE"}
       THEN Return(t.st, [error |-> "Unsupported HTTP method: " \o method])
       ELSE IF IsTransportFailure(resp)
       THEN Return(st1, [error |-> "Request failed: ConnectionError"])
       ELSE IF resp.status_code = 204
       THEN Return(st1, [success |-> TRUE])
       ELSE IF resp.status_code >= 400
       THEN IF resp.body.kind = "empty"
            THEN ErrorMessage(st1, <<>>, resp.status_code)
            ELSE IF resp.body.kind = "json"
            THEN ErrorMessage(st1, resp.body.value, resp.status_code)
            ELSE CatchRequestException(ResponseJson(st1, resp))
       ELSE IF resp.body.kind # "empty"
       THEN CatchRequestException(ResponseJson(st1, resp))
       ELSE Return(st1, [success |-> TRUE])
      : t \in {get_valid_access_token(st, uid, refresh_resp)}})

\* What the provider does during one handler: its answer to each API call
\* in order, and to each token refresh in order.
Script(refresh, api) == [token |-> refresh, api |-> api]

NumCalls(out, to) == Cardinality({i \in DOMAIN out : out[i].to = to})

\* The provider's answer to the next API call, or refresh, of the handler.
NextResponse(st, script, to) ==
    LET n == NumCalls(st.out, to) + 1
    IN IF n \in DOMAIN script[to] THEN script[to][n] ELSE TransportFailure

\* spotify_api_request against the script.
ApiRequest(st, script, uid, method, endpoint, payload) ==
    spotify_api_request(st, uid, method, endpoint, payload,
                        NextResponse(st, script, "token"),
                        NextResponse(st, script, "api"))

\* No handler makes more outbound calls than this.
MaxOutboundCalls == 6

\* The scripts that answer one more call of a handler than `script` does,
\* where `out` are the calls the handler makes when run against `script`:
\* the first call the script does not cover gets each answer the provider
\* may give.  A script that covers every call is left as it is.
Extend(script, out) ==
    Only({
      LET apis == SelectSeq(calls, LAMBDA c : c.to = "api")
      IN IF NumCalls(calls, "token") > Len(script.token)
         THEN {Script(Append(script.token, r), script.api) :
                 r \in RefreshResponses}
         ELSE IF Len(apis) > Len(script.api)
         THEN {Script(script.token, Append(script.api, a)) :
                 a \in ResponsesFor(apis[Len(script.api) + 1])}
         ELSE {script}
      : calls \in {out}})

\* search_tracks: the tracks found, [] on any {error}.
TrackKeys == {"id", "name", "artists", "album", "duration_ms", "uri"}

SpotifyTrack(item) ==
    [id |-> item.id, name |-> item.name,
     artists |-> [i \in DOMAIN item.artists |-> item.artists[i].name],
     album |-> item.album.name, duration_ms |-> item.duration_ms,
     uri |-> item.uri]

search_tracks(st, script, uid, query, limit) ==
    Only({
      LET items == Get(Get(r.val, "tracks", <<>>), "items", <<>>)
    IN IF Raised(r) THEN r
       ELSE IF "error" \in DOMAIN r.val THEN Return(r.st, <<>>)
       ELSE IF \E i \in DOMAIN items : ~(TrackKeys \subseteq DOMAIN items[i])
       THEN Raise(r.st, "KeyError")
       ELSE Return(r.st, [i \in DOMAIN items |-> SpotifyTrack(items[i])])
      : r \in {ApiRequest(st, script, uid, "GET", "/search", [q |-> query, type |-> "track", limit |-> limit])}})

\* SpotifyPlaylist(**kwargs): pydantic validates the declared fields; a
\* required field that is not given raises ValidationError.
PlaylistRequired ==
    {"id", "name", "owner", "tracks_total", "public", "uri", "canEdit"}

SpotifyPlaylist(st, kwargs) ==
    IF PlaylistRequired \subseteq DOMAIN kwargs
    THEN Return(st, kwargs)
    ELSE Raise(st, "ValidationError")

\* The keyword arguments get_user_playlists builds from one item.
PlaylistKwargs(item) ==
    [id |-> item.id, name |-> item.name,
     description |-> Get(item, "description", ""),
     owner |-> item.owner.display_name, tracks_total |-> item.tracks.total,
     public |-> Get(item, "public", FALSE), uri |-> item.uri,
     external_url |-> None]

\* get_user_playlists: the playlists listed, [] on any {error}.
get_user_playlists(st, script, uid, limit) ==
    Only({
      LET items == Get(r.val, "items", <<>>)
        built == [i \in DOMAIN items |->
                     SpotifyPlaylist(r.st, PlaylistKwargs(items[i]))]
    IN IF Raised(r) THEN r
       ELSE IF "error" \in DOMAIN r.val THEN Return(r.st, <<>>)
       ELSE IF \E i \in DOMAIN items : Raised(built[i])
       THEN Raise(r.st, "ValidationError")
       ELSE Return(r.st, [i \in DOMAIN items |-> built[i].val])
      : r \in {ApiRequest(st, script, uid, "GET", "/me/playlists", [limit |-> limit])}})

\* str.lower() on the strings the model uses.
Lower(str) ==
    CASE str = "PLAY" -> "play"
      [] str = "Road Trip" -> "road trip"
      [] str = "Trip Hop" -> "trip hop"
      [] str = "Trip Hop Mix" -> "trip hop mix"
      [] str = "Trip" -> "trip"
      [] str = "Jazz" -> "jazz"
      [] str = "Chill" -> "chill"
      [] OTHER -> str

\* `sub in str` on the lowered strings the model uses.
Contains(sub, str) ==
    \/ sub = str
    \/ sub = ""
    \/ <<sub, str>> \in {<<"trip", "road trip">>, <<"trip", "trip hop">>,
                         <<"trip", "trip hop mix">>,
                         <<"trip hop", "trip hop mix">>}

\* The playlist at the least of the indices `hits`, or None.
FirstOf(playlists, hits) ==
    IF hits = {} THEN NoneDict
    ELSE playlists[CHOOSE i \in hits : \A j \in hits : i <= j]

\* The two loops of find_playlist_by_name over the playlists fetched.
MatchPlaylist(playlists, name) ==
    LET name_lower == Lower(name)
        exact == {i \in DOMAIN playlists :
                     Lower(playlists[i].name) = name_lower}
        partial == {i \in DOMAIN playlists :
                       Contains(name_lower, Lower(playlists[i].name))}
    IN IF exact # {} THEN FirstOf(playlists, exact)
       ELSE FirstOf(playlists, partial)

find_playlist_by_name(st, script, uid, name) ==
    Only({
      IF Raised(r) THEN r ELSE Return(r.st, MatchPlaylist(r.val, name))
      : r \in {get_user_playlists(st, script, uid, 50)}})

-----------------------------------------------------------------------------
(* Requests and responses *)

\* The service between two requests: the last response has been delivered.
Idle == [op |-> "idle"]

\* NoBody stands for a request without a body.
NoBody == <<>>

\* A dict with `key` bound to one of `values`, or without `key`.
Optional(key, values) == {<<>>} \cup {key :> v : v \in values}

\* The value of `authorizing` and of `unlinked` in the specifications that
\* keep no such history.
NoHistory == {None}

\* A handler ends: the store as the handler left it, what it received, what
\* it returned, the outbound calls it made.  The histories, where they are
\* kept, note the user ids GET /auth/spotify has redirected to the provider
\* and the users a disconnect unlinked while they had a default playlist; no
\* handler reads them.
Handled(req, st, resp) ==
    /\ request' = req
    /\ response' = resp
    /\ spotify_tokens' = st.tokens
    /\ outbound' = st.out
    /\ authorizing' = IF /\ authorizing # NoHistory
                         /\ req.op = "spotify_auth"
                         /\ Truthy(req.uid)
                      THEN authorizing \cup {req.uid} ELSE authorizing
    /\ unlinked' = IF unlinked = NoHistory THEN unlinked
                   ELSE IF /\ req.op = "disconnect_spotify"
                           /\ req.uid \in DOMAIN spotify_tokens
                           /\ req.uid \in DOMAIN default_playlists
                   THEN unlinked \cup {req.uid}
                   ELSE IF req.op = "set_default_playlist"
                   THEN unlinked \ {req.uid}
                   ELSE unlinked
    /\ UNCHANGED in_flight

\* An exception that escapes a handler: the framework answers 500.
InternalServerError(exc) == [status_code |-> 500, exc |-> exc]

TemplateResponse(context) == [template |-> "setup.html", context |-> context]
RedirectResponse(url) == [status_code |-> 307, url |-> url]

-----------------------------------------------------------------------------
(* OAuth endpoints *)

\* GET /auth/spotify: a redirect to the provider with state = uid; nothing
\* is stored.
spotify_auth ==
    /\ request = Idle
    /\ \E uid \in {""} \cup Uids :
         Handled([op |-> "spotify_auth", uid |-> uid],
                 Store(spotify_tokens, <<>>),
                 IF ~Truthy(uid)
                 THEN [status_code |-> 400, detail |-> "User ID is required"]
                 ELSE RedirectResponse("https://accounts.spotify.com/authorize"
                                       \o "?state=" \o uid))
    /\ UNCHANGED <<default_playlists, now, linked>>

\* The exchange, dropping the user's record when the provider refuses the
\* code.
ExchangeCode_forgets(code, uid, resp) ==
    LET st1 == Store(spotify_tokens,
                     <<TokenCall("authorization_code", code, resp)>>)
    IN IF IsTransportFailure(resp) THEN Raise(st1, "ConnectionError")
       ELSE IF resp.status_code # 200
       THEN Return(Store(delete_spotify_tokens(st1.tokens, uid), st1.out),
                   TemplateResponse(
                       [authenticated |-> FALSE,
                        error |-> "Failed to exchange authorization code"]))
       ELSE LET token_data == resp.body.value
                expires_at ==
                    now + Get(token_data, "expires_in", DefaultExpiresIn)
            IN Return(Store(store_spotify_tokens(
                              st1.tokens, uid, token_data.access_token,
                              token_data.refresh_token, expires_at),
                            st1.out),
                      RedirectResponse("/?uid=" \o uid))

\* The body of spotify_callback after its parameter checks: the exchange
\* and the store.
ExchangeCode(code, uid, resp) ==
    LET st1 == Store(spotify_tokens,
                     <<TokenCall("authorization_code", code, resp)>>)
    IN IF IsTransportFailure(resp) THEN Raise(st1, "ConnectionError")
       ELSE IF resp.status_code # 200
       THEN Return(st1, TemplateResponse(
                [authenticated |-> FALSE,
                 error |-> "Failed to exchange authorization code"]))
       ELSE LET token_data == resp.body.value
                expires_at ==
                    now + Get(token_data, "expires_in", DefaultExpiresIn)
            IN Return(Store(store_spotify_tokens(
                              st1.tokens, uid, token_data.access_token,
                              token_data.refresh_token, expires_at),
                            st1.out),
                      RedirectResponse("/?uid=" \o uid))

\* The callback stored credentials.
CallbackSucceeded(r) == ~Raised(r) /\ "url" \in DOMAIN r.val

\* GET /auth/spotify/callback, refusing a state for which no authorization
\* was started.
spotify_callback_pending ==
    /\ request = Idle
    /\ \E code \in {None, "code1"}, state \in {None, ""} \cup Uids,
          error \in {None, "access_denied"} :
         LET req == [op |-> "spotify_callback", code |-> code,
                     state |-> state, error |-> error]
             st0 == Store(spotify_tokens, <<>>)
         IN IF Truthy(error)
            THEN /\ Handled(req, st0, TemplateResponse(
                        [authenticated |-> FALSE,
                         error |-> "Authorization failed: " \o error]))
                 /\ linked' = linked
            ELSE IF ~Truthy(code) \/ ~Truthy(state) \/ state \notin authorizing
            THEN /\ Handled(req, st0, TemplateResponse(
                        [authenticated |-> FALSE,
                         error |-> "Invalid callback parameters"]))
                 /\ linked' = linked
            ELSE \E resp \in ExchangeResponses :
                   LET r == ExchangeCode(code, state, resp)
                   IN /\ Handled(req, r.st,
                                 IF Raised(r) THEN InternalServerError(r.exc)
                                 ELSE r.val)
                      /\ linked' = IF CallbackSucceeded(r)
                                   THEN linked \cup {state} ELSE linked
    /\ UNCHANGED <<default_playlists, now>>

\* GET /auth/spotify/callback.
spotify_callback ==
    /\ request = Idle
    /\ \E code \in {None, "code1"}, state \in {None, ""} \cup Uids,
          error \in {None, "access_denied"} :
         LET req == [op |-> "spotify_callback", code |-> code,
                     state |-> state, error |-> error]
             st0 == Store(spotify_tokens, <<>>)
         IN IF Truthy(error)
            THEN /\ Handled(req, st0, TemplateResponse(
                        [authenticated |-> FALSE,
                         error |-> "Authorization failed: " \o error]))
                 /\ linked' = linked
            ELSE IF ~Truthy(code) \/ ~Truthy(state)
            THEN /\ Handled(req, st0, TemplateResponse(
                        [authenticated |-> FALSE,
                         error |-> "Invalid callback parameters"]))
                 /\ linked' = linked
            ELSE \E resp \in ExchangeResponses :
                   LET r == ExchangeCode(code, state, resp)
                   IN /\ Handled(req, r.st,
                                 IF Raised(r) THEN InternalServerError(r.exc)
                                 ELSE r.val)
                      /\ linked' = IF CallbackSucceeded(r)
                                   THEN linked \cup {state} ELSE linked
    /\ UNCHANGED <<default_playlists, now>>

\* What GET /setup/spotify answers for uid in the current state.
check_setup_response(uid) ==
    [is_setup_completed |-> get_spotify_tokens(uid) # NoneDict]

\* GET /setup/spotify.
check_setup ==
    /\ request = Idle
    /\ \E uid \in {""} \cup Uids :
         Handled([op |-> "check_setup", uid |-> uid],
                 Store(spotify_tokens, <<>>), check_setup_response(uid))
    /\ UNCHANGED <<default_playlists, now, linked>>

\* POST /settings/default-playlist.
set_default_playlist ==
    /\ request = Idle
    /\ \E uid \in Uids :
         /\ Handled([op |-> "set_default_playlist", uid |-> uid,
                     playlist_id |-> "p1", playlist_name |-> "Chill"],
                    Store(spotify_tokens, <<>>),
                    [success |-> TRUE,
                     message |-> "Default playlist set to: " \o "Chill"])
         /\ default_playlists' =
                store_default_playlist(default_playlists, uid, "p1", "Chill")
    /\ UNCHANGED <<now, linked>>

\* GET /disconnect, without the delete.
disconnect_spotify_keeps ==
    /\ request = Idle
    /\ \E uid \in Uids :
         /\ Handled([op |-> "disconnect_spotify", uid |-> uid],
                    Store(spotify_tokens, <<>>),
                    RedirectResponse("/?uid=" \o uid))
         /\ linked' = linked \ {uid}
    /\ UNCHANGED <<default_playlists, now>>

\* GET /disconnect.
disconnect_spotify ==
    /\ request = Idle
    /\ \E uid \in Uids :
         /\ Handled([op |-> "disconnect_spotify", uid |-> uid],
                    Store(delete_spotify_tokens(spotify_tokens, uid), <<>>),
                    RedirectResponse("/?uid=" \o uid))
         /\ linked' = linked \ {uid}
    /\ UNCHANGED <<default_playlists, now>>

-----------------------------------------------------------------------------
(* Settings page *)

\* The context home renders the setup page with for a user id.
HomeContext(uid, authenticated, user_profile, playlists, default_playlist) ==
    [uid |-> uid, authenticated |-> authenticated,
     user_profile |-> user_profile, playlists |-> playlists,
     default_playlist |-> default_playlist,
     oauth_url |-> "/auth/spotify?uid=" \o uid]

\* The body of home: the profile and the playlists are fetched when the
\* user has a record.
home_run(uid, script) ==
    LET st == Store(spotify_tokens, <<>>)
        authenticated == get_spotify_tokens_in(st.tokens, uid) # NoneDict
    IN IF ~Truthy(uid)
       THEN Return(st, TemplateResponse([authenticated |-> FALSE,
                                         error |-> "Missing user ID"]))
       ELSE IF ~authenticated
       THEN Return(st, TemplateResponse(
                HomeContext(uid, FALSE, NoneDict, <<>>, NoneDict)))
       ELSE Only({
              IF Raised(profile_result) THEN profile_result
              ELSE Only({
                     IF Raised(playlists) THEN playlists
                     ELSE Return(playlists.st, TemplateResponse(
                              HomeContext(
                                  uid, TRUE,
                                  IF "error" \notin DOMAIN profile_result.val
                                  THEN profile_result.val ELSE NoneDict,
                                  playlists.val, get_default_playlist(uid))))
                     : playlists \in {get_user_playlists(
                                          profile_result.st, script, uid, 50)}})
              : profile_result \in {ApiRequest(st, script, uid, "GET", "/me",
                                               NoBody)}})

\* What the provider may do during the handler: an answer to each of the
\* calls the handler makes, found in `calls` rounds of Extend.
RECURSIVE home_scripts(_, _)
home_scripts(uid, calls) ==
    IF calls = 0 THEN {Script(<<>>, <<>>)}
    ELSE UNION {Extend(script, home_run(uid, script).st.out) :
                  script \in home_scripts(uid, calls - 1)}

\* GET /.
home ==
    /\ request = Idle
    /\ \E uid \in {None, ""} \cup Uids :
         \E script \in home_scripts(uid, MaxOutboundCalls) :
            \E r \in {home_run(uid, script)} :
               Handled([op |-> "home", uid |-> uid], r.st,
                       IF Raised(r) THEN InternalServerError(r.exc)
                       ELSE r.val)
    /\ UNCHANGED <<default_playlists, now, linked>>

-----------------------------------------------------------------------------
(* Chat tools: what they share *)

ChatToolResponse(result, error) == [result |-> result, error |-> error]

ToolResult(result) == ChatToolResponse(result, None)
ToolError(error) == ChatToolResponse(None, error)

NotConnected == "Please connect your Spotify account first in the app settings."

\* await request.json(): the body of a chat-tool request is a JSON object,
\* or text that is not JSON.
RequestJson(st, body) ==
    IF body.kind = "json" THEN Return(st, body.value)
    ELSE Raise(st, "JSONDecodeError")

\* The requests a chat tool may receive: every combination of its fields,
\* each present or absent, and a body that is not JSON.
UidField == Optional("uid", {""} \cup Uids)

\* A chat tool without its except clause.
ExceptException_missing(try, prefix) == try

\* The `except Exception as e` clause that ends every chat tool.
ExceptException(try, prefix) ==
    Only({
      IF Raised(r) THEN Return(r.st, ToolError(prefix \o r.exc)) ELSE r
      : r \in {try}})

\* A chat tool ends: with the response it returned, or with the exception
\* that escaped it.
ToolHandled(op, body, run) ==
    /\ \E r \in {run} :
         Handled([op |-> op, body |-> body], r.st,
                 IF Raised(r) THEN InternalServerError(r.exc) ELSE r.val)
    /\ UNCHANGED <<default_playlists, now, linked>>

-----------------------------------------------------------------------------
(* create_playlist *)

CreatePlaylistBodies ==
    {Json(u @@ n @@ d @@ pub) :
        u \in UidField,
        n \in Optional("name", {"", "Mix"}),
        d \in Optional("description", {"For the road"}),
        pub \in Optional("public", {TRUE})}
        \cup {TextBody("JSONDecodeError")}

\* The try block of tool_create_playlist.
create_playlist_try(st, body, script) ==
    LET b == RequestJson(st, body)
        uid == Get(b.val, "uid", None)
        name == Get(b.val, "name", "")
        description == Get(b.val, "description", "Created with Omi")
        public == Get(b.val, "public", FALSE)
    IN IF Raised(b) THEN b
       ELSE IF ~Truthy(uid) THEN Return(st, ToolError("User ID is required"))
       ELSE IF ~Truthy(name)
       THEN Return(st, ToolError("Playlist name is required"))
       ELSE IF get_spotify_tokens_in(st.tokens, uid) = NoneDict
       THEN Return(st, ToolError(NotConnected))
       ELSE
         LET profile == ApiRequest(st, script, uid, "GET", "/me", NoBody)
             result == ApiRequest(profile.st, script, uid, "POST",
                                  "/users/" \o profile.val.id \o "/playlists",
                                  [name |-> name, description |-> description,
                                   public |-> public])
         IN IF Raised(profile) THEN profile
            ELSE IF "error" \in DOMAIN profile.val
            THEN Return(profile.st, ToolError("Failed to get user profile"))
            ELSE IF "id" \notin DOMAIN profile.val
            THEN Raise(profile.st, "KeyError")
            ELSE IF Raised(result) THEN result
            ELSE IF "error" \in DOMAIN result.val
            THEN Return(result.st, ToolError("Failed to create playlist: "
                                             \o result.val.error))
            ELSE Return(result.st, ToolResult(
                     "Created playlist **" \o name
                     \o "**!\n\nOpen in Spotify: "
                     \o Get(Get(result.val, "external_urls", <<>>),
                            "spotify", "")))

create_playlist_run(body, script) ==
    ExceptException(
        create_playlist_try(Store(spotify_tokens, <<>>), body, script),
        "Failed to create playlist: ")

\* What the provider may do during the handler: an answer to each of the
\* calls the handler makes, found in `calls` rounds of Extend.
RECURSIVE create_playlist_scripts(_, _)
create_playlist_scripts(body, calls) ==
    IF calls = 0 THEN {Script(<<>>, <<>>)}
    ELSE UNION {Extend(script, create_playlist_run(body, script).st.out) :
                  script \in create_playlist_scripts(body, calls - 1)}

\* POST /tools/create_playlist.
tool_create_playlist ==
    /\ request = Idle
    /\ \E body \in CreatePlaylistBodies :
         \E script \in create_playlist_scripts(body, MaxOutboundCalls) :
            ToolHandled("create_playlist", body, create_playlist_run(body, script))

-----------------------------------------------------------------------------
(* get_playlists *)

GetPlaylistsBodies ==
    {Json(u @@ l) : u \in UidField, l \in Optional("limit", {1})}
        \cup {TextBody("JSONDecodeError")}

RECURSIVE PlaylistLines(_, _)
PlaylistLines(playlists, i) ==
    IF i > Len(playlists) THEN ""
    ELSE ToString(i) \o ". "
         \o (IF playlists[i].public THEN "public" ELSE "private")
         \o " **" \o playlists[i].name \o "** ("
         \o ToString(playlists[i].tracks_total) \o " tracks)\n"
         \o PlaylistLines(playlists, i + 1)

\* tool_get_playlists without its `if not tokens` check.
get_playlists_try_unchecked(st, body, script) ==
    LET b == RequestJson(st, body)
        uid == Get(b.val, "uid", None)
        limit == Get(b.val, "limit", 10)
    IN IF Raised(b) THEN b
       ELSE IF ~Truthy(uid) THEN Return(st, ToolError("User ID is required"))
       ELSE Only({
              IF Raised(l) THEN l
            ELSE IF l.val = <<>>
            THEN Return(l.st, ToolResult("You don't have any playlists yet."))
            ELSE Return(l.st, ToolResult("Your playlists:\n\n"
                                         \o PlaylistLines(l.val, 1)))
              : l \in {get_user_playlists(st, script, uid, limit)}})

\* The try block of tool_get_playlists.
get_playlists_try(st, body, script) ==
    LET b == RequestJson(st, body)
        uid == Get(b.val, "uid", None)
        limit == Get(b.val, "limit", 10)
    IN IF Raised(b) THEN b
       ELSE IF ~Truthy(uid) THEN Return(st, ToolError("User ID is required"))
       ELSE IF get_spotify_tokens_in(st.tokens, uid) = NoneDict
       THEN Return(st, ToolError(NotConnected))
       ELSE LET l == get_user_playlists(st, script, uid, limit)
            IN IF Raised(l) THEN l
               ELSE IF l.val = <<>>
               THEN Return(l.st,
                           ToolResult("You don't have any playlists yet."))
               ELSE Return(l.st, ToolResult("Your playlists:\n\n"
                                            \o PlaylistLines(l.val, 1)))

get_playlists_run(body, script) ==
    ExceptException(
        get_playlists_try(Store(spotify_tokens, <<>>), body, script),
        "Failed to get playlists: ")

\* What the provider may do during the handler: an answer to each of the
\* calls the handler makes, found in `calls` rounds of Extend.
RECURSIVE get_playlists_scripts(_, _)
get_playlists_scripts(body, calls) ==
    IF calls = 0 THEN {Script(<<>>, <<>>)}
    ELSE UNION {Extend(script, get_playlists_run(body, script).st.out) :
                  script \in get_playlists_scripts(body, calls - 1)}

\* POST /tools/get_playlists.
tool_get_playlists ==
    /\ request = Idle
    /\ \E body \in GetPlaylistsBodies :
         \E script \in get_playlists_scripts(body, MaxOutboundCalls) :
            ToolHandled("get_playlists", body, get_playlists_run(body, script))

-----------------------------------------------------------------------------
(* get_now_playing *)

GetNowPlayingBodies ==
    {Json(u) : u \in UidField} \cup {TextBody("JSONDecodeError")}

\* progress_ms or duration_ms as minutes:seconds.
Clock(ms) ==
    ToString(ms \div 60000) \o ":"
    \o (IF (ms % 60000) \div 1000 < 10 THEN "0" ELSE "")
    \o ToString((ms % 60000) \div 1000)

\* The try block of tool_get_now_playing.
get_now_playing_try(st, body, script) ==
    LET b == RequestJson(st, body)
        uid == Get(b.val, "uid", None)
    IN IF Raised(b) THEN b
       ELSE IF ~Truthy(uid) THEN Return(st, ToolError("User ID is required"))
       ELSE IF get_spotify_tokens_in(st.tokens, uid) = NoneDict
       THEN Return(st, ToolError(NotConnected))
       ELSE
         LET r == ApiRequest(st, script, uid, "GET",
                             "/me/player/currently-playing", NoBody)
             track == r.val.item
             is_playing == Get(r.val, "is_playing", FALSE)
             progress_ms == Get(r.val, "progress_ms", 0)
         IN IF Raised(r) THEN r
            ELSE IF "error" \in DOMAIN r.val
            THEN Return(r.st, ToolError("Failed to get playback: "
                                        \o r.val.error))
            ELSE IF "item" \notin DOMAIN r.val
            THEN Return(r.st, ToolResult(
                     "Nothing is currently playing on Spotify."))
            ELSE IF ~(TrackKeys \subseteq DOMAIN track)
            THEN Raise(r.st, "KeyError")
            ELSE Return(r.st, ToolResult(
                     (IF is_playing THEN "Playing" ELSE "Paused")
                     \o ": **" \o track.name \o "** by "
                     \o track.artists[1].name \o "\nAlbum: "
                     \o track.album.name \o "\nProgress: "
                     \o Clock(progress_ms) \o " / "
                     \o Clock(track.duration_ms)))

get_now_playing_run(body, script) ==
    ExceptException(
        get_now_playing_try(Store(spotify_tokens, <<>>), body, script),
        "Failed to get current playback: ")

\* What the provider may do during the handler: an answer to each of the
\* calls the handler makes, found in `calls` rounds of Extend.
RECURSIVE get_now_playing_scripts(_, _)
get_now_playing_scripts(body, calls) ==
    IF calls = 0 THEN {Script(<<>>, <<>>)}
    ELSE UNION {Extend(script, get_now_playing_run(body, script).st.out) :
                  script \in get_now_playing_scripts(body, calls - 1)}

\* POST /tools/get_now_playing.
tool_get_now_playing ==
    /\ request = Idle
    /\ \E body \in GetNowPlayingBodies :
         \E script \in get_now_playing_scripts(body, MaxOutboundCalls) :
            ToolHandled("get_now_playing", body, get_now_playing_run(body, script))

-----------------------------------------------------------------------------
(* control_playback *)

\* "No active device" in str(error), on the messages the model uses.
MentionsNoActiveDevice(error) == error = NoActiveDeviceMessage

NoActiveDevice ==
    "No active Spotify device found. Please open Spotify on one of your "
    \o "devices first."

ValidActions == {"play", "pause", "next", "previous", "skip"}

endpoint_map(action) ==
    CASE action = "play" -> <<"/me/player/play", "PUT">>
      [] action = "pause" -> <<"/me/player/pause", "PUT">>
      [] action = "next" -> <<"/me/player/next", "POST">>
      [] action = "skip" -> <<"/me/player/next", "POST">>
      [] action = "previous" -> <<"/me/player/previous", "POST">>

action_messages(action) ==
    CASE action = "play" -> "Resumed playback"
      [] action = "pause" -> "Paused playback"
      [] action = "next" -> "Skipped to next track"
      [] action = "skip" -> "Skipped to next track"
      [] action = "previous" -> "Went to previous track"

InvalidAction == "Invalid action. Use: play, pause, next, previous"

ControlPlaybackBodies ==
    {Json(u @@ a) : u \in UidField,
                    a \in Optional("action", {"play", "skip", "PLAY",
                                               "shuffle", "", None})}
        \cup {TextBody("JSONDecodeError")}

\* tool_control_playback, resolving the access token before it validates
\* the action.
control_playback_try_token_first(st, body, script) ==
    LET b == RequestJson(st, body)
        uid == Get(b.val, "uid", None)
        raw == Get(b.val, "action", "")
        action == Lower(raw)
    IN IF Raised(b) THEN b
       ELSE IF raw = None THEN Raise(st, "AttributeError")
       ELSE IF ~Truthy(uid) THEN Return(st, ToolError("User ID is required"))
       ELSE Only({
              IF Raised(t) THEN t
            ELSE IF action \notin ValidActions
            THEN Return(t.st, ToolError(InvalidAction))
            ELSE IF get_spotify_tokens_in(t.st.tokens, uid) = NoneDict
            THEN Return(t.st, ToolError(NotConnected))
            ELSE Only({
                   IF Raised(r) THEN r
                 ELSE IF "error" \in DOMAIN r.val
                 THEN IF MentionsNoActiveDevice(r.val.error)
                      THEN Return(r.st, ToolError(NoActiveDevice))
                      ELSE Return(r.st, ToolError("Playback control failed: "
                                                  \o r.val.error))
                 ELSE Return(r.st, ToolResult(action_messages(action)))
                   : r \in {ApiRequest(t.st, script, uid, endpoint_map(action)[2], endpoint_map(action)[1], NoBody)}})
              : t \in {get_valid_access_token(st, uid, NextResponse(st, script, "token"))}})

\* The try block of tool_control_playback.
control_playback_try(st, body, script) ==
    LET b == RequestJson(st, body)
        uid == Get(b.val, "uid", None)
        raw == Get(b.val, "action", "")
        action == Lower(raw)
    IN IF Raised(b) THEN b
       ELSE IF raw = None THEN Raise(st, "AttributeError")
       ELSE IF ~Truthy(uid) THEN Return(st, ToolError("User ID is required"))
       ELSE IF action \notin ValidActions
       THEN Return(st, ToolError(InvalidAction))
       ELSE IF get_spotify_tokens_in(st.tokens, uid) = NoneDict
       THEN Return(st, ToolError(NotConnected))
       ELSE LET em == endpoint_map(action)
                r == ApiRequest(st, script, uid, em[2], em[1], NoBody)
            IN IF Raised(r) THEN r
               ELSE IF "error" \in DOMAIN r.val
               THEN IF MentionsNoActiveDevice(r.val.error)
                    THEN Return(r.st, ToolError(NoActiveDevice))
                    ELSE Return(r.st, ToolError("Playback control failed: "
                                                \o r.val.error))
               ELSE Return(r.st, ToolResult(action_messages(action)))

control_playback_run(body, script) ==
    ExceptException(
        control_playback_try(Store(spotify_tokens, <<>>), body, script),
        "Playback control failed: ")

\* What the provider may do during the handler: an answer to each of the
\* calls the handler makes, found in `calls` rounds of Extend.
RECURSIVE control_playback_scripts(_, _)
control_playback_scripts(body, calls) ==
    IF calls = 0 THEN {Script(<<>>, <<>>)}
    ELSE UNION {Extend(script, control_playback_run(body, script).st.out) :
                  script \in control_playback_scripts(body, calls - 1)}

\* POST /tools/control_playback.
tool_control_playback ==
    /\ request = Idle
    /\ \E body \in ControlPlaybackBodies :
         \E script \in control_playback_scripts(body, MaxOutboundCalls) :
            ToolHandled("control_playback", body, control_playback_run(body, script))

-----------------------------------------------------------------------------
(* search_songs *)

SearchSongsBodies ==
    {Json(u @@ q) : u \in UidField, q \in Optional("query", {"", "Song"})}
        \cup {TextBody("JSONDecodeError")}

\* One line of the result per track.
RECURSIVE TrackLines(_, _)
TrackLines(tracks, i) ==
    IF i > Len(tracks) THEN ""
    ELSE ToString(i) \o ". **" \o tracks[i].name \o "** by "
         \o tracks[i].artists[1] \o " ("
         \o ToString(tracks[i].duration_ms \div 60000) \o ":"
         \o (IF (tracks[i].duration_ms % 60000) \div 1000 < 10
             THEN "0" ELSE "")
         \o ToString((tracks[i].duration_ms % 60000) \div 1000)
         \o ") - Album: " \o tracks[i].album \o "\n"
         \o TrackLines(tracks, i + 1)

\* The try block of tool_search_songs.
search_songs_try(st, body, script) ==
    LET b == RequestJson(st, body)
        uid == Get(b.val, "uid", None)
        query == Get(b.val, "query", "")
        limit == 5
    IN IF Raised(b) THEN b
       ELSE IF ~Truthy(uid) THEN Return(st, ToolError("User ID is required"))
       ELSE IF ~Truthy(query)
       THEN Return(st, ToolError("Search query is required"))
       ELSE IF get_spotify_tokens_in(st.tokens, uid) = NoneDict
       THEN Return(st, ToolError(NotConnected))
       ELSE LET t == search_tracks(st, script, uid, query, limit)
            IN IF Raised(t) THEN t
               ELSE IF t.val = <<>>
               THEN Return(t.st, ToolResult("No songs found for '" \o query
                                            \o "'"))
               ELSE Return(t.st, ToolResult(
                        "Found " \o ToString(Len(t.val)) \o " songs:\n\n"
                        \o TrackLines(t.val, 1)))

search_songs_run(body, script) ==
    ExceptException(search_songs_try(Store(spotify_tokens, <<>>), body, script),
                    "Search failed: ")

\* What the provider may do during the handler: an answer to each of the
\* calls the handler makes, found in `calls` rounds of Extend.
RECURSIVE search_songs_scripts(_, _)
search_songs_scripts(body, calls) ==
    IF calls = 0 THEN {Script(<<>>, <<>>)}
    ELSE UNION {Extend(script, search_songs_run(body, script).st.out) :
                  script \in search_songs_scripts(body, calls - 1)}

\* POST /tools/search_songs.
tool_search_songs ==
    /\ request = Idle
    /\ \E body \in SearchSongsBodies :
         \E script \in search_songs_scripts(body, MaxOutboundCalls) :
            ToolHandled("search_songs", body, search_songs_run(body, script))

-----------------------------------------------------------------------------
(* add_to_playlist *)

AddToPlaylistBodies ==
    {Json(u @@ sn @@ an @@ pn @@ pid) :
        u \in UidField,
        sn \in Optional("song_name", {"", "Song"}),
        an \in Optional("artist_name", {"Artist"}),
        pn \in Optional("playlist_name", {"trip hop", "Trip", "Jazz"}),
        pid \in Optional("playlist_id", {"p2"})}
        \cup {TextBody("JSONDecodeError")}

NoPlaylist ==
    "No playlist specified and no default playlist set. Please specify a "
    \o "playlist name or set a default in app settings."

\* The playlist built from an id and a name, without listing the user's
\* playlists (main.py:471 and main.py:488).
PlaylistOf(st, id, name) ==
    SpotifyPlaylist(st, [id |-> id, name |-> name, owner |-> "",
                         tracks_total |-> 0, public |-> FALSE,
                         uri |-> "spotify:playlist:" \o id])

\* "Determine which playlist to use": val is the target playlist, or the
\* response that ends the handler.
target_playlist(st, script, uid, playlist_id, playlist_name) ==
    IF Truthy(playlist_id)
    THEN PlaylistOf(st, playlist_id,
                    IF Truthy(playlist_name) THEN playlist_name ELSE "Unknown")
    ELSE IF Truthy(playlist_name)
    THEN LET f == find_playlist_by_name(st, script, uid, playlist_name)
         IN IF Raised(f) THEN f
            ELSE IF f.val = NoneDict
            THEN Return(f.st, ToolError("Could not find playlist: "
                                        \o playlist_name))
            ELSE f
    ELSE LET default == get_default_playlist(uid)
         IN IF default # NoneDict
            THEN PlaylistOf(st, default.id, default.name)
            ELSE Return(st, ToolError(NoPlaylist))

\* The try block of tool_add_to_playlist.
add_to_playlist_try(st, body, script) ==
    LET b == RequestJson(st, body)
        uid == Get(b.val, "uid", None)
        song_name == Get(b.val, "song_name", "")
        artist_name == Get(b.val, "artist_name", "")
        playlist_name == Get(b.val, "playlist_name", None)
        playlist_id == Get(b.val, "playlist_id", None)
        search_query == IF Truthy(artist_name)
                        THEN song_name \o " artist:" \o artist_name
                        ELSE song_name
    IN IF Raised(b) THEN b
       ELSE IF ~Truthy(uid) THEN Return(st, ToolError("User ID is required"))
       ELSE IF ~Truthy(song_name)
       THEN Return(st, ToolError("Song name is required"))
       ELSE IF get_spotify_tokens_in(st.tokens, uid) = NoneDict
       THEN Return(st, ToolError(NotConnected))
       ELSE
         LET t == search_tracks(st, script, uid, search_query, 1)
             track == t.val[1]
             target == target_playlist(t.st, script, uid, playlist_id,
                                       playlist_name)
             r == ApiRequest(target.st, script, uid, "POST",
                             "/playlists/" \o target.val.id \o "/tracks",
                             [uris |-> <<track.uri>>])
         IN IF Raised(t) THEN t
            ELSE IF t.val = <<>>
            THEN Return(t.st, ToolError("Could not find song: " \o song_name))
            ELSE IF Raised(target) \/ "error" \in DOMAIN target.val
            THEN target
            ELSE IF Raised(r) THEN r
            ELSE IF "error" \in DOMAIN r.val
            THEN Return(r.st, ToolError("Failed to add song: " \o r.val.error))
            ELSE Return(r.st, ToolResult(
                     "Added **" \o track.name \o "** by " \o track.artists[1]
                     \o " to playlist **" \o target.val.name \o "**!"))

add_to_playlist_run(body, script) ==
    ExceptException(
        add_to_playlist_try(Store(spotify_tokens, <<>>), body, script),
        "Failed to add song: ")

\* What the provider may do during the handler: an answer to each of the
\* calls the handler makes, found in `calls` rounds of Extend.
RECURSIVE add_to_playlist_scripts(_, _)
add_to_playlist_scripts(body, calls) ==
    IF calls = 0 THEN {Script(<<>>, <<>>)}
    ELSE UNION {Extend(script, add_to_playlist_run(body, script).st.out) :
                  script \in add_to_playlist_scripts(body, calls - 1)}

\* POST /tools/add_to_playlist.
tool_add_to_playlist ==
    /\ request = Idle
    /\ \E body \in AddToPlaylistBodies :
         \E script \in add_to_playlist_scripts(body, MaxOutboundCalls) :
            ToolHandled("add_to_playlist", body, add_to_playlist_run(body, script))

-----------------------------------------------------------------------------
(* play_song *)

PlaySongBodies ==
    {Json(u @@ sn @@ an) :
        u \in UidField,
        sn \in Optional("song_name", {"", "Song"}),
        an \in Optional("artist_name", {"Artist"})}
        \cup {TextBody("JSONDecodeError")}

\* The try block of tool_play_song.
play_song_try(st, body, script) ==
    LET b == RequestJson(st, body)
        uid == Get(b.val, "uid", None)
        song_name == Get(b.val, "song_name", "")
        artist_name == Get(b.val, "artist_name", "")
        search_query == IF Truthy(artist_name)
                        THEN song_name \o " artist:" \o artist_name
                        ELSE song_name
    IN IF Raised(b) THEN b
       ELSE IF ~Truthy(uid) THEN Return(st, ToolError("User ID is required"))
       ELSE IF ~Truthy(song_name)
       THEN Return(st, ToolError("Song name is required"))
       ELSE IF get_spotify_tokens_in(st.tokens, uid) = NoneDict
       THEN Return(st, ToolError(NotConnected))
       ELSE
         LET t == search_tracks(st, script, uid, search_query, 1)
             track == t.val[1]
             r == ApiRequest(t.st, script, uid, "PUT", "/me/player/play",
                             [uris |-> <<track.uri>>])
         IN IF Raised(t) THEN t
            ELSE IF t.val = <<>>
            THEN Return(t.st, ToolError("Could not find song: " \o song_name))
            ELSE IF Raised(r) THEN r
            ELSE IF "error" \in DOMAIN r.val
            THEN IF MentionsNoActiveDevice(r.val.error)
                 THEN Return(r.st, ToolError(NoActiveDevice))
                 ELSE Return(r.st, ToolError("Failed to play: "
                                             \o r.val.error))
            ELSE Return(r.st, ToolResult("Now playing: **" \o track.name
                                         \o "** by " \o track.artists[1]))

play_song_run(body, script) ==
    ExceptException(play_song_try(Store(spotify_tokens, <<>>), body, script),
                    "Failed to play song: ")

\* What the provider may do during the handler: an answer to each of the
\* calls the handler makes, found in `calls` rounds of Extend.
RECURSIVE play_song_scripts(_, _)
play_song_scripts(body, calls) ==
    IF calls = 0 THEN {Script(<<>>, <<>>)}
    ELSE UNION {Extend(script, play_song_run(body, script).st.out) :
                  script \in play_song_scripts(body, calls - 1)}

\* POST /tools/play_song.
tool_play_song ==
    /\ request = Idle
    /\ \E body \in PlaySongBodies :
         \E script \in play_song_scripts(body, MaxOutboundCalls) :
            ToolHandled("play_song", body, play_song_run(body, script))

-----------------------------------------------------------------------------
(* get_recommendations *)

GetRecommendationsBodies ==
    {Json(u @@ t @@ a @@ g) :
        u \in UidField,
        t \in Optional("seed_tracks", {<<"t9">>}),
        a \in Optional("seed_artists", {<<"a9">>}),
        g \in Optional("seed_genres", {<<"rock">>})}
        \cup {TextBody("JSONDecodeError")}

\* ",".join(seq[:5])
RECURSIVE Join(_, _)
Join(seq, i) ==
    IF i > Len(seq) \/ i > 5 THEN ""
    ELSE (IF i > 1 THEN "," ELSE "") \o seq[i] \o Join(seq, i + 1)

\* The query string of GET /recommendations.
RecommendationParams(limit, seed_tracks, seed_artists, seed_genres) ==
    [limit |-> limit]
      @@ (IF seed_tracks # <<>>
          THEN [seed_tracks |-> Join(seed_tracks, 1)] ELSE <<>>)
      @@ (IF seed_artists # <<>>
          THEN [seed_artists |-> Join(seed_artists, 1)] ELSE <<>>)
      @@ (IF seed_genres # <<>>
          THEN [seed_genres |-> Join(seed_genres, 1)] ELSE <<>>)

RECURSIVE RecommendationLines(_, _)
RecommendationLines(tracks, i) ==
    IF i > Len(tracks) THEN ""
    ELSE ToString(i) \o ". **" \o tracks[i].name \o "** by "
         \o tracks[i].artists[1].name \o "\n"
         \o RecommendationLines(tracks, i + 1)

\* The try block of tool_get_recommendations.
get_recommendations_try(st, body, script) ==
    LET b == RequestJson(st, body)
        uid == Get(b.val, "uid", None)
        seed_artists == Get(b.val, "seed_artists", <<>>)
        seed_genres == Get(b.val, "seed_genres", <<>>)
        limit == 5
        no_seeds == /\ Get(b.val, "seed_tracks", <<>>) = <<>>
                    /\ seed_artists = <<>>
                    /\ seed_genres = <<>>
        recent == ApiRequest(st, script, uid, "GET",
                             "/me/player/recently-played", [limit |-> 5])
        recent_items == Get(recent.val, "items", <<>>)
        st1 == IF no_seeds THEN recent.st ELSE st
        seed_tracks ==
            IF no_seeds /\ "error" \notin DOMAIN recent.val
                        /\ recent_items # <<>>
            THEN [i \in DOMAIN recent_items |-> recent_items[i].track.id]
            ELSE Get(b.val, "seed_tracks", <<>>)
        result == ApiRequest(st1, script, uid, "GET", "/recommendations",
                             RecommendationParams(limit, seed_tracks,
                                                  seed_artists, seed_genres))
        tracks == Get(result.val, "tracks", <<>>)
    IN IF Raised(b) THEN b
       ELSE IF ~Truthy(uid) THEN Return(st, ToolError("User ID is required"))
       ELSE IF get_spotify_tokens_in(st.tokens, uid) = NoneDict
       THEN Return(st, ToolError(NotConnected))
       ELSE IF no_seeds /\ Raised(recent) THEN recent
       ELSE IF Raised(result) THEN result
       ELSE IF "error" \in DOMAIN result.val
       THEN Return(result.st, ToolError("Failed to get recommendations: "
                                        \o result.val.error))
       ELSE IF tracks = <<>>
       THEN Return(result.st, ToolResult("No recommendations found."))
       ELSE IF \E i \in DOMAIN tracks : ~(TrackKeys \subseteq DOMAIN tracks[i])
       THEN Raise(result.st, "KeyError")
       ELSE Return(result.st, ToolResult("Recommended songs for you:\n\n"
                                         \o RecommendationLines(tracks, 1)))

get_recommendations_run(body, script) ==
    ExceptException(
        get_recommendations_try(Store(spotify_tokens, <<>>), body, script),
        "Failed to get recommendations: ")

\* What the provider may do during the handler: an answer to each of the
\* calls the handler makes, found in `calls` rounds of Extend.
RECURSIVE get_recommendations_scripts(_, _)
get_recommendations_scripts(body, calls) ==
    IF calls = 0 THEN {Script(<<>>, <<>>)}
    ELSE UNION {Extend(script, get_recommendations_run(body, script).st.out) :
                  script \in get_recommendations_scripts(body, calls - 1)}

\* POST /tools/get_recommendations.
tool_get_recommendations ==
    /\ request = Idle
    /\ \E body \in GetRecommendationsBodies :
         \E script \in get_recommendations_scripts(body, MaxOutboundCalls) :
            ToolHandled("get_recommendations", body, get_recommendations_run(body, script))

-----------------------------------------------------------------------------
(* Scheduling of the handlers *)

(***************************************************************************)
(* The handler of a chat tool as a task of the event loop, for the tool    *)
(* tool_search_songs.  A task leaves the loop only at an `await`, and the  *)
(* only one in a handler is `await request.json()`.  The calls to the      *)
(* provider are made with the blocking `requests` library: while one is    *)
(* outstanding its task keeps the loop and no other task runs.             *)
(*                                                                         *)
(* pc of a task: "idle" (no request), "json" (suspended at                 *)
(* `await request.json()`), "expired" (is_token_expired said yes and the   *)
(* refresh POST is outstanding), "api" (the token is resolved and the GET  *)
(* is outstanding), "done" (the handler has returned).                     *)
(***************************************************************************)
Tasks == 1..MaxInFlight

IdleTask ==
    [pc |-> "idle", uid |-> None, saw |-> NoneDict, bearer |-> None,
     refreshed |-> FALSE, waited |-> FALSE]

\* The positions at which a task holds the event loop.
OnLoop == {"expired", "api"}

\* The event loop as if the calls to the provider were awaited.
LoopFree_yielding == TRUE

\* No task holds the event loop.
LoopFree == \A t \in Tasks : in_flight[t].pc \notin OnLoop

\* The server accepts a request and starts its handler, which runs up to
\* `await request.json()`.
Receive(t) ==
    /\ in_flight[t].pc = "idle"
    /\ LoopFree
    /\ \E uid \in Uids :
         in_flight' = [in_flight EXCEPT ![t] = [IdleTask EXCEPT
                                                  !.pc = "json",
                                                  !.uid = uid]]
    /\ UNCHANGED <<spotify_tokens, default_playlists, now, request, response,
                   outbound, linked, authorizing, unlinked>>

\* The body has arrived and the loop resumes the handler: it runs through
\* get_spotify_tokens and into get_valid_access_token, up to the first call
\* to the provider.
Resume(t) ==
    /\ in_flight[t].pc = "json"
    /\ LoopFree
    /\ LET uid == in_flight[t].uid
           tokens == get_spotify_tokens_in(spotify_tokens, uid)
       IN in_flight' =
            [in_flight EXCEPT ![t] =
               IF tokens = NoneDict
               THEN [@ EXCEPT !.pc = "done"]
               ELSE IF is_token_expired_in(spotify_tokens, uid)
               THEN [@ EXCEPT !.pc = "expired", !.saw = tokens]
               ELSE [@ EXCEPT !.pc = "api", !.saw = tokens,
                              !.bearer = tokens.access_token]]
    /\ UNCHANGED <<spotify_tokens, default_playlists, now, request, response,
                   outbound, linked, authorizing, unlinked>>

\* The refresh POST returns: on 200 the record is overwritten and the new
\* access token is used for the call that follows; otherwise the handler
\* ends without a call to the API.
RefreshReturns(t) ==
    /\ in_flight[t].pc = "expired"
    /\ \E resp \in RefreshResponses :
         LET uid == in_flight[t].uid
             tokens == in_flight[t].saw
             r == refresh_access_token(Store(spotify_tokens, <<>>),
                                       tokens.refresh_token, resp)
             new_tokens == r.val
             Waited(task) ==
                 IF task.pc = "json" THEN [task EXCEPT !.waited = TRUE]
                 ELSE task
         IN IF Raised(r) \/ new_tokens = NoneDict \/ new_tokens = <<>>
            THEN /\ in_flight' = [u \in Tasks |->
                                    IF u = t
                                    THEN [in_flight[t] EXCEPT !.pc = "done"]
                                    ELSE Waited(in_flight[u])]
                 /\ UNCHANGED spotify_tokens
            ELSE /\ in_flight' = [u \in Tasks |->
                                    IF u = t
                                    THEN [in_flight[t] EXCEPT
                                            !.pc = "api",
                                            !.bearer = new_tokens.access_token,
                                            !.refreshed = TRUE]
                                    ELSE Waited(in_flight[u])]
                 /\ spotify_tokens' =
                        store_spotify_tokens(
                            spotify_tokens, uid, new_tokens.access_token,
                            Get(new_tokens, "refresh_token",
                                tokens.refresh_token),
                            now + Get(new_tokens, "expires_in",
                                      DefaultExpiresIn))
    /\ UNCHANGED <<default_playlists, now, request, response, outbound,
                   linked, authorizing, unlinked>>

\* The GET returns and the handler runs to its return.
ApiReturns(t) ==
    /\ in_flight[t].pc = "api"
    /\ in_flight' = [in_flight EXCEPT ![t].pc = "done"]
    /\ UNCHANGED <<spotify_tokens, default_playlists, now, request, response,
                   outbound, linked, authorizing, unlinked>>

\* The response has been sent.
Respond(t) ==
    /\ in_flight[t].pc = "done"
    /\ in_flight' = [in_flight EXCEPT ![t] = IdleTask]
    /\ UNCHANGED <<spotify_tokens, default_playlists, now, request, response,
                   outbound, linked, authorizing, unlinked>>

\* A second passes, whatever the tasks do.
Elapse ==
    /\ now < MaxTime
    /\ now' = now + 1
    /\ UNCHANGED <<spotify_tokens, default_playlists, request, response,
                   outbound, linked, in_flight,
                   authorizing, unlinked>>

\* The records a callback at time 0 stores (ExchangeResponses).
CallbackRecords ==
    {[access_token |-> "at1", refresh_token |-> "rt1", expires_at |-> e] :
        e \in {1, DefaultExpiresIn}}

InitInFlight ==
    /\ spotify_tokens \in UNION {[S -> CallbackRecords] : S \in SUBSET Uids}
    /\ linked = DOMAIN spotify_tokens
    /\ default_playlists = <<>>
    /\ now = 0
    /\ request = Idle
    /\ response = Idle
    /\ outbound = <<>>
    /\ in_flight = [t \in Tasks |-> IdleTask]
    /\ authorizing = NoHistory
    /\ unlinked = NoHistory

NextInFlight ==
    \/ \E t \in Tasks : Receive(t)
    \/ \E t \in Tasks : Resume(t)
    \/ \E t \in Tasks : RefreshReturns(t)
    \/ \E t \in Tasks : ApiReturns(t)
    \/ \E t \in Tasks : Respond(t)
    \/ Elapse

SpecInFlight == InitInFlight /\ [][NextInFlight]_vars

-----------------------------------------------------------------------------
(* The environment *)

\* The response reaches the client; the service waits for the next request.
Deliver ==
    /\ request # Idle
    /\ request' = Idle
    /\ response' = Idle
    /\ outbound' = <<>>
    /\ UNCHANGED <<spotify_tokens, default_playlists, now, linked, in_flight,
                   authorizing, unlinked>>

\* A second passes between two requests.
Tick ==
    /\ request = Idle
    /\ now < MaxTime
    /\ now' = now + 1
    /\ UNCHANGED <<spotify_tokens, default_playlists, request, response,
                   outbound, linked, in_flight,
                   authorizing, unlinked>>

-----------------------------------------------------------------------------
(* Specification *)

Init ==
    /\ spotify_tokens = <<>>
    /\ default_playlists = <<>>
    /\ now = 0
    /\ request = Idle
    /\ response = Idle
    /\ outbound = <<>>
    /\ linked = {}
    /\ in_flight = [t \in Tasks |-> IdleTask]
    /\ authorizing = NoHistory
    /\ unlinked = NoHistory

Next ==
    \/ home
    \/ spotify_auth
    \/ spotify_callback
    \/ check_setup
    \/ set_default_playlist
    \/ disconnect_spotify
    \/ tool_search_songs
    \/ tool_add_to_playlist
    \/ tool_create_playlist
    \/ tool_get_playlists
    \/ tool_get_now_playing
    \/ tool_control_playback
    \/ tool_play_song
    \/ tool_get_recommendations
    \/ Deliver
    \/ Tick

Spec == Init /\ [][Next]_vars

\* The OAuth flow with the history of the authorizations started: the OAuth
\* endpoints, the setup probe and a chat tool that refreshes the token.
InitOAuth ==
    /\ spotify_tokens = <<>>
    /\ default_playlists = <<>>
    /\ now = 0
    /\ request = Idle
    /\ response = Idle
    /\ outbound = <<>>
    /\ linked = {}
    /\ in_flight = [t \in Tasks |-> IdleTask]
    /\ authorizing = {}
    /\ unlinked = NoHistory

NextOAuth ==
    \/ spotify_auth
    \/ spotify_callback
    \/ check_setup
    \/ disconnect_spotify
    \/ tool_get_now_playing
    \/ Deliver
    \/ Tick

SpecOAuth == InitOAuth /\ [][NextOAuth]_vars

\* The settings of a user across a disconnect, with the history of the
\* disconnects that found a default playlist: the default-playlist endpoint,
\* the disconnect, the OAuth callback and the tool that reads the default.
InitSettings ==
    /\ spotify_tokens = <<>>
    /\ default_playlists = <<>>
    /\ now = 0
    /\ request = Idle
    /\ response = Idle
    /\ outbound = <<>>
    /\ linked = {}
    /\ in_flight = [t \in Tasks |-> IdleTask]
    /\ authorizing = NoHistory
    /\ unlinked = {}

NextSettings ==
    \/ set_default_playlist
    \/ disconnect_spotify
    \/ spotify_callback
    \/ tool_add_to_playlist
    \/ Deliver
    \/ Tick

SpecSettings == InitSettings /\ [][NextSettings]_vars

-----------------------------------------------------------------------------
(* What the properties below read off a state *)

ToolOps ==
    {"search_songs", "add_to_playlist", "create_playlist", "get_playlists",
     "get_now_playing", "control_playback", "play_song", "get_recommendations"}

\* The last handler was a chat tool that received a JSON object.
ToolRequest == request.op \in ToolOps /\ request.body.kind = "json"

\* A field of the JSON object the chat tool received.
Field(key, default) == Get(request.body.value, key, default)

\* The chat tool was called for a user id that has no credential record.
\* (No chat tool creates or deletes a record, so the record is absent before
\* the call exactly when it is absent after it.)
UnconnectedToolRequest ==
    /\ ToolRequest
    /\ Truthy(Field("uid", None))
    /\ Field("uid", None) \notin DOMAIN spotify_tokens

\* The request passes the input checks the tool makes before it looks for
\* the credential record.
PassesInputChecks ==
    CASE request.op = "search_songs" -> Truthy(Field("query", ""))
      [] request.op \in {"add_to_playlist", "play_song"}
           -> Truthy(Field("song_name", ""))
      [] request.op = "create_playlist" -> Truthy(Field("name", ""))
      [] request.op = "control_playback"
           -> /\ Field("action", "") # None
              /\ Lower(Field("action", "")) \in ValidActions
      [] OTHER -> TRUE

-----------------------------------------------------------------------------
(* C1 *)

\* C1, as stated: for every user id without a credential record, every chat
\* tool answers with the not-connected error, whatever the other fields of
\* the request are.
C1_NotConnectedWhateverTheFields ==
    UnconnectedToolRequest => response = ToolError(NotConnected)

\* C1, amended: for every user id without a credential record, every chat
\* tool answers with `error` set and `result` unset; the error is the
\* not-connected message whenever the request passes the tool's own input
\* checks (query, song name, playlist name, action), which come first.
C1_NotConnected ==
    UnconnectedToolRequest =>
        /\ DOMAIN response = {"result", "error"}
        /\ response.result = None
        /\ response.error # None
        /\ PassesInputChecks => response.error = NotConnected

\* add_to_playlist, called with a song name for a user id without a record,
\* has answered with the not-connected message.
C1_Witness ==
    /\ UnconnectedToolRequest
    /\ request.op = "add_to_playlist"
    /\ Field("song_name", "") = "Song"
    /\ response = ToolError(NotConnected)

-----------------------------------------------------------------------------
(* C2 *)

\* C2: in every reachable state a credential record exists for a user id
\* exactly when a successful OAuth callback stored tokens for that user id
\* and no disconnect for that user id has happened since.
C2_RecordIffLinked == DOMAIN spotify_tokens = linked

\* A chat tool has refreshed the token of u1, who is linked, and stored the
\* new one, while u2 is not linked.
C2_Witness ==
    /\ ToolRequest
    /\ linked = {"u1"}
    /\ outbound # <<>>
    /\ outbound[1].to = "token"
    /\ outbound[1].grant_type = "refresh_token"
    /\ spotify_tokens["u1"].access_token = "at2"

-----------------------------------------------------------------------------
(* C3 *)

\* The API call outbound[i] carries the stored token, reported not expired.
SendsFreshStoredToken(i) ==
    /\ ~outbound[i].expired
    /\ ~outbound[i].refreshed
    /\ outbound[i].bearer = outbound[i].stored

\* The API call outbound[i] carries the token the refresh just before it
\* returned.
SendsRefreshedToken(i) ==
    /\ outbound[i].refreshed
    /\ i > 1
    /\ outbound[i - 1].to = "token"
    /\ outbound[i - 1].grant_type = "refresh_token"
    /\ ~IsTransportFailure(outbound[i - 1].resp)
    /\ outbound[i - 1].resp.status_code = 200
    /\ outbound[i].bearer = outbound[i - 1].resp.body.value.access_token

\* C3: every request spotify_api_request sends to the provider's API carries
\* either the stored access token, reported not expired in that invocation,
\* or the access token the refresh of that invocation just returned; a
\* stored token reported expired is never the bearer token.
C3_BearerNotExpired ==
    \A i \in DOMAIN outbound :
        outbound[i].to = "api" =>
            /\ Truthy(outbound[i].bearer)
            /\ SendsFreshStoredToken(i) \/ SendsRefreshedToken(i)

\* A handler found the stored token expired, refreshed it, sent the new
\* token, and sent the then stored token, not expired, with its second call.
C3_Witness ==
    /\ Len(outbound) = 3
    /\ outbound[1].to = "token"
    /\ outbound[2].to = "api" /\ outbound[2].expired
    /\ SendsRefreshedToken(2)
    /\ outbound[3].to = "api"
    /\ SendsFreshStoredToken(3)
    /\ outbound[3].bearer = "at2"

-----------------------------------------------------------------------------
(* C4 *)

\* The OAuth callback exchanged the code and stored the tokens.
CallbackStored ==
    /\ request.op = "spotify_callback"
    /\ Truthy(request.code) /\ Truthy(request.state)
    /\ ~Truthy(request.error)
    /\ outbound # <<>>
    /\ ~IsTransportFailure(outbound[1].resp)
    /\ outbound[1].resp.status_code = 200

\* C4: GET /setup/spotify answers is_setup_completed = true in the state
\* right after a successful OAuth callback for the user id, and false in the
\* state right after GET /disconnect for the user id; whenever it is called,
\* it answers true exactly for the user ids linked by a callback and not
\* disconnected since.
C4_SetupProbe ==
    /\ CallbackStored =>
           check_setup_response(request.state) = [is_setup_completed |-> TRUE]
    /\ request.op = "disconnect_spotify" =>
           check_setup_response(request.uid) = [is_setup_completed |-> FALSE]
    /\ request.op = "check_setup" =>
           response = [is_setup_completed |-> request.uid \in linked]

\* The callback has just stored tokens for u1, and the probe now answers
\* true for u1.
C4_Witness ==
    /\ CallbackStored
    /\ request.state = "u1"
    /\ check_setup_response("u1").is_setup_completed
    /\ ~check_setup_response("").is_setup_completed

\* u1 has just disconnected while u2 stays connected.
C4_WitnessDisconnect ==
    /\ request.op = "disconnect_spotify"
    /\ request.uid = "u1"
    /\ check_setup_response("u2").is_setup_completed
    /\ ~check_setup_response("u1").is_setup_completed

-----------------------------------------------------------------------------
(* C5, C6: the target of add_to_playlist *)

\* The API calls of the last handler to `endpoint`.
CallsTo(endpoint) ==
    {i \in DOMAIN outbound :
        outbound[i].to = "api" /\ outbound[i].endpoint = endpoint}

\* The provider answered the call outbound[i] with a status below 400.
Accepted(i) ==
    /\ ~IsTransportFailure(outbound[i].resp)
    /\ outbound[i].resp.status_code < 400

\* The items the provider returned to the search of the last handler.
SearchItems ==
    IF \E i \in CallsTo("/search") :
          Accepted(i) /\ outbound[i].resp.body.kind = "json"
    THEN LET i == CHOOSE i \in CallsTo("/search") : Accepted(i)
         IN outbound[i].resp.body.value.tracks.items
    ELSE <<>>

\* add_to_playlist was called by a connected user, with a song name, and
\* the search returned a track.
AddToPlaylistFound ==
    /\ ToolRequest
    /\ request.op = "add_to_playlist"
    /\ Field("uid", None) \in DOMAIN spotify_tokens
    /\ Truthy(Field("song_name", ""))
    /\ SearchItems # <<>>
    /\ TrackKeys \subseteq DOMAIN SearchItems[1]

\* The add-tracks calls of the last handler, and those that send the found
\* track to the playlist `id`.
AddTracksCalls ==
    {i \in DOMAIN outbound :
        /\ outbound[i].to = "api"
        /\ outbound[i].method = "POST"
        /\ "uris" \in DOMAIN outbound[i].payload}

AddTracksTo(id) ==
    {i \in AddTracksCalls :
        /\ outbound[i].endpoint = "/playlists/" \o id \o "/tracks"
        /\ outbound[i].payload = [uris |-> <<SearchItems[1].uri>>]}

\* The found track goes to the playlist `id` and nowhere else.
Targets(id) == AddTracksTo(id) # {} /\ AddTracksCalls = AddTracksTo(id)

\* C5: when a connected user has a stored default playlist P and calls
\* add_to_playlist with a song the search finds and with neither playlist_id
\* nor playlist_name, the tool sends POST /playlists/P/tracks with the
\* track's URI and, if the provider accepts it, returns a result.
C5_DefaultPlaylistTargeted ==
    ( /\ AddToPlaylistFound
      /\ ~Truthy(Field("playlist_id", None))
      /\ ~Truthy(Field("playlist_name", None))
      /\ get_default_playlist(Field("uid", None)) # NoneDict )
    => /\ Targets(get_default_playlist(Field("uid", None)).id)
       /\ \A i \in AddTracksCalls :
              Accepted(i) => response.result # None /\ response.error = None

\* The provider listed the user's playlists to the last handler.
ListingAccepted ==
    \E i \in CallsTo("/me/playlists") :
        Accepted(i) /\ outbound[i].resp.body.kind = "json"

\* The playlists the provider listed to the last handler.
Listed ==
    IF ListingAccepted
    THEN LET i == CHOOSE i \in CallsTo("/me/playlists") : Accepted(i)
         IN outbound[i].resp.body.value.items
    ELSE <<>>

\* C6: add_to_playlist resolves its target in strict precedence: playlist_id
\* (no name lookup, no default), else the playlist found by playlist_name
\* (a not-found error when none matches, no fallback to the default), else
\* the stored default, else the 'No playlist specified' error; whenever a
\* target is resolved, the add-tracks call goes to that target's id.  (When
\* the provider fails to list the playlists, only the absence of an
\* add-tracks call is required.)
C6_TargetPrecedence ==
    AddToPlaylistFound =>
        LET playlist_id == Field("playlist_id", None)
            playlist_name == Field("playlist_name", None)
            default == get_default_playlist(Field("uid", None))
            found == MatchPlaylist(Listed, playlist_name)
        IN IF Truthy(playlist_id)
           THEN Targets(playlist_id) /\ CallsTo("/me/playlists") = {}
           ELSE IF Truthy(playlist_name)
           THEN IF found # NoneDict
                THEN Targets(found.id)
                ELSE /\ ListingAccepted =>
                          response = ToolError("Could not find playlist: "
                                               \o playlist_name)
                     /\ AddTracksCalls = {}
           ELSE IF default # NoneDict
           THEN Targets(default.id)
           ELSE response = ToolError(NoPlaylist) /\ AddTracksCalls = {}

-----------------------------------------------------------------------------
(* C7 *)

\* The names asked for.
QueryNames == {"trip hop", "Trip", "Jazz"}

\* C7: for every list of playlists the provider returns for a connected user
\* and every name, find_playlist_by_name returns a playlist whose name
\* equals the name case-insensitively when there is one, even if an earlier
\* playlist only contains the name; otherwise the first playlist whose name
\* contains the name case-insensitively; otherwise None.
C7_ExactThenSubstring ==
    \A uid \in DOMAIN spotify_tokens, listing \in PlaylistListings,
       name \in QueryNames :
        ~is_token_expired_in(spotify_tokens, uid) =>
            LET answer == HttpResponse(200, Json([items |-> listing]))
                f == find_playlist_by_name(Store(spotify_tokens, <<>>),
                                           Script(<<>>, <<answer>>), uid, name)
                Exact(item) == Lower(item.name) = Lower(name)
                Partial(item) == Contains(Lower(name), Lower(item.name))
                first == CHOOSE i \in DOMAIN listing :
                             /\ Partial(listing[i])
                             /\ \A j \in 1..(i - 1) : ~Partial(listing[j])
            IN /\ ~Raised(f)
               /\ IF \E i \in DOMAIN listing : Exact(listing[i])
                  THEN f.val # NoneDict /\ Exact(f.val)
                  ELSE IF \E i \in DOMAIN listing : Partial(listing[i])
                  THEN /\ f.val # NoneDict
                       /\ f.val.id = listing[first].id
                  ELSE f.val = NoneDict

-----------------------------------------------------------------------------
(* C8 *)

\* The items of `seq` lack keys of a track.
LacksTrackKeys(seq) ==
    \E i \in DOMAIN seq : ~(TrackKeys \subseteq DOMAIN seq[i])

\* The provider's answer to the API call makes the handler raise: an `error`
\* that is a string, a profile, an item or a track without its keys, or a
\* playlist (SpotifyPlaylist is built without canEdit).
Unexpected(call) ==
    /\ ~IsTransportFailure(call.resp)
    /\ call.resp.body.kind = "json"
    /\ LET value == call.resp.body.value
       IN IF "error" \in DOMAIN value THEN IsJsonString(value.error)
          ELSE CASE call.endpoint = "/me" -> "id" \notin DOMAIN value
                 [] call.endpoint = "/search"
                      -> LacksTrackKeys(value.tracks.items)
                 [] call.endpoint = "/recommendations"
                      -> LacksTrackKeys(value.tracks)
                 [] call.endpoint = "/me/playlists" -> value.items # <<>>
                 [] call.endpoint = "/me/player/currently-playing"
                      -> /\ "item" \in DOMAIN value
                         /\ ~(TrackKeys \subseteq DOMAIN value.item)
                 [] OTHER -> FALSE

\* Something failed inside the last chat tool: the body was not JSON, the
\* action was null, a refresh failed in transport, or the answer to its last
\* call made it raise.
InternalFailure ==
    /\ request.op \in ToolOps
    /\ \/ request.body.kind # "json"
       \/ Field("action", "") = None
       \/ /\ outbound # <<>>
          /\ LET last == outbound[Len(outbound)]
             IN IF last.to = "token" THEN IsTransportFailure(last.resp)
                ELSE Unexpected(last)

\* C8: for every chat tool, every request body and every behaviour of the
\* provider, the handler returns a ChatToolResponse with exactly one of
\* `result` and `error` populated; an internal failure never escapes the
\* handler and yields `error` populated with `result` unset.
C8_ExactlyOneOfResultAndError ==
    request.op \in ToolOps =>
        /\ DOMAIN response = {"result", "error"}
        /\ (response.result = None) # (response.error = None)
        /\ response.result # "" /\ response.error # ""
        /\ InternalFailure => response.result = None

\* get_now_playing got a 400 whose `error` is a string: the AttributeError
\* raised in spotify_api_request is caught by the handler.
C8_Witness ==
    /\ request.op = "get_now_playing"
    /\ InternalFailure
    /\ Len(outbound) = 1
    /\ outbound[1].resp.status_code = 400
    /\ response = ToolError("Failed to get current playback: AttributeError")

-----------------------------------------------------------------------------
(* C9 *)

\* The upstream failures of an API call: a status of 400 or more with an
\* empty body, a body that is not JSON, an `error` object or an `error`
\* string, and a transport failure.
UpstreamFailures ==
    {resp \in CommonFailures :
        IsTransportFailure(resp) \/ resp.status_code >= 400}

\* C9: spotify_api_request never raises for an upstream failure: for every
\* answer with a status of 400 or more and for every transport failure it
\* returns {error: <message>}.
C9_NeverRaises ==
    \A uid \in DOMAIN spotify_tokens, resp \in UpstreamFailures,
       refresh_resp \in RefreshResponses :
        LET r == spotify_api_request(Store(spotify_tokens, <<>>), uid, "GET",
                                     "/me", NoBody, refresh_resp, resp)
        IN ~Raised(r) /\ DOMAIN r.val = {"error"}

-----------------------------------------------------------------------------
(* C10 *)

\* control_playback was called with a user id and with an action that is a
\* string (or left out) and, lowercased as the handler does, is none of the
\* valid actions.
InvalidActionRequest ==
    /\ ToolRequest
    /\ request.op = "control_playback"
    /\ Truthy(Field("uid", None))
    /\ Field("action", "") # None
    /\ Lower(Field("action", "")) \notin ValidActions

\* C10: control_playback with a non-empty user id and an action outside
\* {play, pause, next, previous, skip} returns the invalid-action error and
\* makes no outbound call, neither an API request nor a token refresh,
\* whether or not the user has a record and whether or not the stored token
\* is expired.  (An action of null makes no outbound call either.)
C10_InvalidActionNoCall ==
    /\ InvalidActionRequest =>
           response = ToolError(InvalidAction) /\ outbound = <<>>
    /\ ( /\ ToolRequest
         /\ request.op = "control_playback"
         /\ Field("action", "") = None )
       => response.result = None /\ outbound = <<>>

\* "shuffle" was asked for by u1, whose stored token is expired.
C10_Witness ==
    /\ InvalidActionRequest
    /\ Field("action", "") = "shuffle"
    /\ Field("uid", None) = "u1"
    /\ "u1" \in DOMAIN spotify_tokens
    /\ is_token_expired_in(spotify_tokens, "u1")
    /\ response = ToolError(InvalidAction)
    /\ outbound = <<>>

-----------------------------------------------------------------------------
(* C11 *)

\* search_songs was called by a connected user with a query.
SearchSongsConnected ==
    /\ ToolRequest
    /\ request.op = "search_songs"
    /\ Field("uid", None) \in DOMAIN spotify_tokens
    /\ Truthy(Field("query", ""))

\* C11: search_tracks returns an empty list on every upstream error (a
\* failed refresh, a status of 400 or more, a transport failure), and
\* search_songs, called by a connected user, answers a search that yields no
\* track, failed or without a match, with the result "No songs found for
\* '<query>'" and no error.
C11_UpstreamErrorsReadAsNoMatch ==
    /\ \A uid \in DOMAIN spotify_tokens, resp \in UpstreamFailures,
          refresh_resp \in RefreshResponses :
           LET t == search_tracks(Store(spotify_tokens, <<>>),
                                  Script(<<refresh_resp>>, <<resp>>), uid,
                                  "Song", 5)
           IN ~Raised(t) /\ t.val = <<>>
    /\ (SearchSongsConnected /\ SearchItems = <<>>) =>
           response = ToolResult("No songs found for '" \o Field("query", "")
                                 \o "'")

-----------------------------------------------------------------------------
(* C12 *)

\* C12: for a connected user whose playlist listing succeeds with at least
\* one item, get_user_playlists returns one playlist per item, in order, and
\* the get_playlists tool returns a result, not an error.
C12_ListingMapped ==
    /\ \A uid \in DOMAIN spotify_tokens,
          listing \in PlaylistListings \ {<<>>} :
           ~is_token_expired_in(spotify_tokens, uid) =>
               LET answer == HttpResponse(200, Json([items |-> listing]))
                   l == get_user_playlists(Store(spotify_tokens, <<>>),
                                           Script(<<>>, <<answer>>), uid, 20)
               IN /\ ~Raised(l)
                  /\ Len(l.val) = Len(listing)
                  /\ \A i \in DOMAIN listing :
                         /\ l.val[i].id = listing[i].id
                         /\ l.val[i].name = listing[i].name
    /\ ( /\ ToolRequest
         /\ request.op = "get_playlists"
         /\ Field("uid", None) \in DOMAIN spotify_tokens
         /\ Listed # <<>> )
       => response.result # None /\ response.error = None

-----------------------------------------------------------------------------
(* C13 *)

\* The setup page, rendered with an error.
SetupError(error) ==
    TemplateResponse([authenticated |-> FALSE, error |-> error])

\* C13: GET /auth/spotify/callback with an `error` parameter, or without
\* `code` or `state`, or whose token exchange is answered with a status
\* other than 200, renders the setup page with the corresponding error and
\* leaves every credential record as it was; `error` takes precedence over
\* missing parameters, and in the first two cases no token-exchange request
\* is sent.
C13_FailedCallbackKeepsStore ==
    [][ (request = Idle /\ request'.op = "spotify_callback") =>
          IF Truthy(request'.error)
          THEN /\ response' = SetupError("Authorization failed: "
                                         \o request'.error)
               /\ outbound' = <<>>
               /\ spotify_tokens' = spotify_tokens
          ELSE IF ~Truthy(request'.code) \/ ~Truthy(request'.state)
          THEN /\ response' = SetupError("Invalid callback parameters")
               /\ outbound' = <<>>
               /\ spotify_tokens' = spotify_tokens
          ELSE /\ Len(outbound') = 1
               /\ outbound'[1].grant_type = "authorization_code"
               /\ ( /\ ~IsTransportFailure(outbound'[1].resp)
                    /\ outbound'[1].resp.status_code # 200 )
                  => /\ response' = SetupError(
                                      "Failed to exchange authorization code")
                     /\ spotify_tokens' = spotify_tokens ]_vars

\* The provider refused the code of a callback for u1, who has a record:
\* the page shows the exchange error.
C13_Witness ==
    /\ request.op = "spotify_callback"
    /\ request.state = "u1"
    /\ outbound # <<>>
    /\ outbound[1].resp = HttpResponse(400,
                              Json([error |-> JsonString("invalid_grant")]))
    /\ "u1" \in DOMAIN spotify_tokens
    /\ response = SetupError("Failed to exchange authorization code")

\* A callback carrying `error`, a code and a state was answered with the
\* authorization error while u1 has a record.
C13_WitnessPrecedence ==
    /\ request.op = "spotify_callback"
    /\ request.error = "access_denied"
    /\ request.code = "code1"
    /\ request.state = "u1"
    /\ "u1" \in DOMAIN spotify_tokens
    /\ response = SetupError("Authorization failed: access_denied")

-----------------------------------------------------------------------------
(* C14 *)

\* GET / was called with a user id that has a credential record.  (home
\* neither creates nor deletes a record.)
HomeConnected ==
    /\ request.op = "home"
    /\ Truthy(request.uid)
    /\ request.uid \in DOMAIN spotify_tokens

\* The profile fetch of the last handler was answered with a failure.
ProfileFailed ==
    \E i \in CallsTo("/me") : ~Accepted(i)

\* C14: GET / with a user id that has a credential record always renders
\* the setup page with authenticated = true, whatever the provider returns
\* for the profile and for the playlist listing; when the profile fetch
\* fails the page is rendered without profile data.
C14_HomeRendersWhenConnected ==
    HomeConnected =>
        /\ DOMAIN response = {"template", "context"}
        /\ response.context.authenticated = TRUE
        /\ ProfileFailed => response.context.user_profile = NoneDict

-----------------------------------------------------------------------------
(* C15 *)

-----------------------------------------------------------------------------
(* C16 *)

\* The methods and the answers spotify_api_request is tried with.
ApiAnswers ==
    CommonFailures \cup {HttpResponse(204, EmptyBody),
                         HttpResponse(200, EmptyBody),
                         HttpResponse(200, Json([id |-> "sp1"]))}

\* The refresh was answered with a failure.
RefreshFailed(call) ==
    IsTransportFailure(call.resp) \/ call.resp.status_code # 200

\* The tools that invoke spotify_api_request once.
OneRequestTools == {"get_playlists", "get_now_playing", "control_playback"}

\* C16: one invocation of spotify_api_request, made with the store and at
\* the time of any state in which the service awaits a request (every store
\* and time a handler starts from), sends at most one refresh
\* request and at most one API request, the refresh first; a failed refresh
\* is followed by no request at all, and a failed API request (a status of
\* 400 or more, a transport failure) by no second attempt.
C16_OneAttempt ==
    /\ request = Idle =>
        \A uid \in Uids, method \in {"GET", "POST", "PATCH"},
           resp \in ApiAnswers, refresh_resp \in RefreshResponses :
           LET r == spotify_api_request(Store(spotify_tokens, <<>>), uid,
                                        method, "/me", NoBody, refresh_resp,
                                        resp)
               out == r.st.out
           IN /\ NumCalls(out, "token") <= 1
              /\ NumCalls(out, "api") <= 1
              /\ Len(out) = 2 => out[1].to = "token" /\ out[2].to = "api"
              /\ (out # <<>> /\ out[1].to = "token" /\ RefreshFailed(out[1]))
                     => Len(out) = 1
    /\ request.op \in OneRequestTools =>
           /\ NumCalls(outbound, "token") <= 1
           /\ NumCalls(outbound, "api") <= 1

\* get_now_playing found the token expired, refreshed it and got a
\* transport failure for its one API request: two calls, no retry.
C16_Witness ==
    /\ request.op = "get_now_playing"
    /\ Len(outbound) = 2
    /\ outbound[1].to = "token" /\ ~RefreshFailed(outbound[1])
    /\ outbound[2].to = "api" /\ IsTransportFailure(outbound[2].resp)

\* control_playback found the token expired and the refresh was refused:
\* one call, no retry and no API request.
C16_WitnessRefresh ==
    /\ request.op = "control_playback"
    /\ Len(outbound) = 1
    /\ outbound[1].to = "token"
    /\ ~IsTransportFailure(outbound[1].resp)
    /\ outbound[1].resp.status_code = 400

-----------------------------------------------------------------------------
(* C17 *)

\* What get_valid_access_token does for uid when the provider answers a
\* refresh, should one be sent, with refresh_resp: as C17 states it.
AsSpecified(uid, refresh_resp) ==
    LET st == Store(spotify_tokens, <<>>)
        tokens == get_spotify_tokens(uid)
        r == get_valid_access_token(st, uid, refresh_resp)
        new_tokens == refresh_resp.body.value
    IN /\ ~Raised(r)
       /\ IF tokens = NoneDict
          THEN r.val.token = None /\ r.st = st
          ELSE IF ~is_token_expired_in(spotify_tokens, uid)
          THEN r.val.token = tokens.access_token /\ r.st = st
          ELSE /\ Len(r.st.out) = 1
               /\ r.st.out[1] = TokenCall("refresh_token",
                                          tokens.refresh_token, refresh_resp)
               /\ IF ~RefreshFailed(r.st.out[1])
                  THEN /\ r.val.token = new_tokens.access_token
                       /\ r.st.tokens =
                            [spotify_tokens EXCEPT ![uid] =
                               [access_token |-> new_tokens.access_token,
                                refresh_token |->
                                    IF "refresh_token" \in DOMAIN new_tokens
                                    THEN new_tokens.refresh_token
                                    ELSE tokens.refresh_token,
                                expires_at |->
                                    IF "expires_in" \in DOMAIN new_tokens
                                    THEN now + new_tokens.expires_in
                                    ELSE now + 3600]]
                  ELSE /\ r.val.token = None
                       /\ r.st.tokens = spotify_tokens

\* C17: get_valid_access_token returns absent for a user without a record
\* and the stored access token for an unexpired record, in both cases
\* without a refresh request or a write; for an expired record it sends one
\* refresh and, on 200, overwrites the record with the new access token,
\* expiry = current time + expires_in (3600 when omitted) and the new
\* refresh token (the stored one when omitted) and returns the new access
\* token; when the refresh fails it returns absent.
C17_ValidAccessToken ==
    \A uid \in Uids, refresh_resp \in RefreshResponses :
        AsSpecified(uid, refresh_resp)

-----------------------------------------------------------------------------
(* C18 *)

\* C18: for every chat tool, a request whose user id is missing or empty is
\* answered with the error "User ID is required" and without any outbound
\* call, whatever its other fields are (a missing or null action, a missing
\* query or song name).
C18_UserIdFirst ==
    (ToolRequest /\ ~Truthy(Field("uid", None))) =>
        /\ response = ToolError("User ID is required")
        /\ outbound = <<>>

-----------------------------------------------------------------------------
(* C19 *)

\* What a provider call does for uid, whose record is expired, when the
\* refresh fails with refresh_resp: as C19 states it.
KeepsRecord(uid, refresh_resp) ==
    LET r == spotify_api_request(Store(spotify_tokens, <<>>), uid, "GET",
                                 "/me", NoBody, refresh_resp,
                                 HttpResponse(200, Json([id |-> "sp1"])))
    IN /\ ~Raised(r)
       /\ r.val = [error |-> "User not authenticated with Spotify"]
       /\ NumCalls(r.st.out, "api") = 0
       /\ r.st.tokens = spotify_tokens
       /\ get_spotify_tokens_in(r.st.tokens, uid) # NoneDict
       /\ check_setup_response(uid) = [is_setup_completed |-> TRUE]

\* C19: when the refresh fails for a user whose record is expired, the
\* record is left exactly as it was, so GET /setup/spotify keeps answering
\* true and the connected-account check of the chat tools keeps passing,
\* while the provider call returns the error "User not authenticated with
\* Spotify" and no API request is sent.
C19_FailedRefreshKeepsRecord ==
    \A uid \in DOMAIN spotify_tokens, refresh_resp \in RefreshResponses :
        ( /\ is_token_expired_in(spotify_tokens, uid)
          /\ RefreshFailed([resp |-> refresh_resp]) )
        => KeepsRecord(uid, refresh_resp)

-----------------------------------------------------------------------------
(* C20 *)

\* The record the callback stores for the tokens the provider returned.
CallbackRecord(token_data) ==
    [access_token |-> token_data.access_token,
     refresh_token |-> token_data.refresh_token,
     expires_at |-> now + Get(token_data, "expires_in", 3600)]

\* The step is a callback that carries a code and a state and no error.
CallbackWithCode ==
    /\ request = Idle
    /\ request'.op = "spotify_callback"
    /\ Truthy(request'.code) /\ Truthy(request'.state)
    /\ ~Truthy(request'.error)

\* C20: the callback keeps no record of pending authorizations.  In every
\* state, a callback that carries a code and state = u sends the exchange,
\* and when the exchange returns 200 it creates or overwrites the record of
\* u and leaves the other records alone, whether or not GET /auth/spotify
\* was ever called for u and whether or not u has a record.
C20_CallbackWithoutPendingAuthorization ==
    [][ CallbackWithCode =>
          /\ Len(outbound') = 1
          /\ outbound'[1] = TokenCall("authorization_code", request'.code,
                                      outbound'[1].resp)
          /\ ( /\ ~IsTransportFailure(outbound'[1].resp)
               /\ outbound'[1].resp.status_code = 200 )
             => /\ DOMAIN spotify_tokens'
                      = DOMAIN spotify_tokens \cup {request'.state}
                /\ \A u \in DOMAIN spotify_tokens' :
                       spotify_tokens'[u] =
                           IF u = request'.state
                           THEN CallbackRecord(outbound'[1].resp.body.value)
                           ELSE spotify_tokens[u]
                /\ response' = RedirectResponse("/?uid=" \o request'.state)
      ]_vars

\* The callback stored tokens for u1, for whom GET /auth/spotify was never
\* called: the only authorization started is that of u2.
C20_Witness ==
    /\ CallbackStored
    /\ request.state = "u1"
    /\ authorizing = {"u2"}
    /\ spotify_tokens["u1"].access_token = "at1"
    /\ response = RedirectResponse("/?uid=u1")

-----------------------------------------------------------------------------
(* C21 *)

\* The step is POST /settings/default-playlist.
SetsDefault ==
    /\ request = Idle
    /\ request'.op = "set_default_playlist"

\* The step is GET /disconnect.
Disconnects ==
    /\ request = Idle
    /\ request'.op = "disconnect_spotify"

\* add_to_playlist was called with a song the search found and with neither
\* playlist_id nor playlist_name, by a user who chose a default playlist, was
\* then unlinked by a disconnect and has a credential record again.
AddToDefaultAfterRelink ==
    /\ AddToPlaylistFound
    /\ ~Truthy(Field("playlist_id", None))
    /\ ~Truthy(Field("playlist_name", None))
    /\ Field("uid", None) \in unlinked

\* C21: POST /settings/default-playlist stores the given playlist id and
\* name for the user id whether or not the user has a credential record and
\* touches nothing else; GET /disconnect removes the credential record of the
\* user and nothing else, the default-playlist records included; so a user
\* who chose a default, disconnected and authorized again still has that
\* default, and add_to_playlist without playlist_id and playlist_name sends
\* the found track to it and returns a result when the provider accepts.
C21_DefaultSurvivesDisconnect ==
    [][ /\ SetsDefault =>
            /\ DOMAIN default_playlists'
                   = DOMAIN default_playlists \cup {request'.uid}
            /\ \A u \in DOMAIN default_playlists' :
                   default_playlists'[u] =
                       IF u = request'.uid
                       THEN [id |-> request'.playlist_id,
                             name |-> request'.playlist_name]
                       ELSE default_playlists[u]
            /\ spotify_tokens' = spotify_tokens
        /\ Disconnects =>
            /\ default_playlists' = default_playlists
            /\ DOMAIN spotify_tokens'
                   = DOMAIN spotify_tokens \ {request'.uid}
            /\ \A u \in DOMAIN spotify_tokens' :
                   spotify_tokens'[u] = spotify_tokens[u]
        /\ (request = Idle /\ AddToDefaultAfterRelink') =>
            /\ default_playlists' = default_playlists
            /\ Field("uid", None)' \in DOMAIN default_playlists
            /\ Targets(get_default_playlist(Field("uid", None)).id)'
            /\ \A i \in AddTracksCalls' :
                   Accepted(i)' => /\ response'.result # None
                                   /\ response'.error = None
      ]_vars

====
